---- MODULE Spec2Model ----
(***************************************************************************)
(* Nina: build pipeline, deploy pipeline and ingress data plane.           *)
(*                                                                         *)
(* The store is a key-value backend shared by the Engine and the Ingress.  *)
(* A stored value is modelled as an option: <<>> when the key is absent,   *)
(* <<r>> when the key holds record r.                                      *)
(*                                                                         *)
(* Specifications:                                                         *)
(*   Spec         the Engine's deploy and delete handlers over the store   *)
(*                and the container runtime                                *)
(*   SpecFair     Spec with the scheduling fairness of the handler tasks   *)
(*   SpecSolo     a single POST /deploy on its own, scheduled fairly       *)
(*   SpecBuild    the CLI's build precheck and the Engine's build handler  *)
(*   SpecIngress  the Ingress snapshot refresher and its readers, next to  *)
(*                an Engine that deploys and deletes                       *)
(*   SpecArchive  the extraction of one bundle into its scratch directory  *)
(*   SpecWrite    one POST /build and one POST /deploy whose callers may   *)
(*                disconnect                                               *)
(*   SpecCancel   SpecWrite over a store that never fails                  *)
(*   SpecServe    the Ingress from Start to Stop: refresher, request      *)
(*                routing and shutdown over a store of two apps            *)
(*   SpecStop     SpecServe's Ingress with one request, scheduled fairly   *)
(*   SpecGet      one POST /deploy, one DELETE and the GETs of             *)
(*                /deployments/:id                                         *)
(*   SpecLegacy   calls of the legacy store's CreateDeployment and         *)
(*                DeleteDeployment                                         *)
(*   SpecConcurrent  goroutines that call the legacy store's               *)
(*                CreateDeployment and DeleteDeployment concurrently       *)
(*   SpecPrecheck builds submitted by CLIs only, after their precheck      *)
(*   SpecRace     deploys of well-formed requests over a store that        *)
(*                answers every call, with no delete                       *)
(*   SpecStamps   the store calls of deploy pipelines with the             *)
(*                timestamps they write                                    *)
(*   SpecRefresh  the running Ingress, scheduled fairly, next to an        *)
(*                Engine that deletes a deployment                         *)
(***************************************************************************)
EXTENDS Integers, Sequences, FiniteSets, TLC

VARIABLES
    builds,     \* store: key nina-build-<commit_hash>
    ndeps,      \* store: key nina-deployment-<app_name>
    legacy,     \* store: keys deployment:<id> and deployment:name:<name>
    storeUp,    \* whether the store backend answers
    runtime,    \* container ids that exist in the container runtime
    dh,         \* POST /deploy requests: handler and its background task
    xh,         \* DELETE /deployments/:id requests
    gh,         \* GET /deployments/:id and /deployments/:id/status requests
    lh,         \* legacy structure: the ids generated and the calls' results
    bh,         \* POST /build requests: the CLI's precheck and the handler
    scratch,    \* scratch directories that exist on the Engine's disk
    deployments,    \* Ingress: the snapshot, i.deployments
    deploymentsMux, \* Ingress: the reader/writer lock of the snapshot
    fetcher,        \* Ingress: the deploymentFetcher goroutine
    ih,             \* Ingress: request handlers
    installed,      \* history: the lists fetchDeployments has installed
    ing,            \* Ingress: server, stopChan, wg and the Stop call
    ex,         \* bundle extraction: the NewBundle call in progress
    fs          \* bundle extraction: directories and files on the disk

deployVars == <<ndeps, legacy, runtime, dh, xh, gh, lh>>
buildVars == <<bh, scratch>>
ingressVars == <<deployments, deploymentsMux, fetcher, ih, installed, ing>>
archiveVars == <<ex, fs>>

vars == <<builds, storeUp, deployVars, buildVars, ingressVars, archiveVars>>

----------------------------------------------------------------------------
(* Bounds *)

MaxDeploys == 2
MaxDeletes == 2
MaxReplicas == 2
\* requests the Engine serves in one run (deploys and deletes together)
MaxRequests == 3
MaxBuilds == 2
MaxFetches == 2
MaxReads == 2
MaxNameLen == 5
MaxEntries == 2
MaxGets == 2
MaxProvisions == 3
MaxCallers == 2

DeployTasks == 1..MaxDeploys
DeleteTasks == 1..MaxDeletes
BuildTasks == 1..MaxBuilds
ReadTasks == 1..MaxReads
GetTasks == 1..MaxGets
Callers == 1..MaxCallers

Apps == {"demo"}
Commits == {"abc123"}
\* what a request may carry in app_name / commit_hash ("" is the empty field)
\* and in replicas (an int: zero and negative values included)
ReqApps == Apps \cup {""}
ReqCommits == Commits \cup {""}
ReqReplicas == -1..MaxReplicas
\* what the runtime may report as the host port of the 8080/tcp binding
HostPorts == {"", "32768"}

None == <<>>
Some(r) == <<r>>

----------------------------------------------------------------------------
(* types: statuses *)

DeploymentStatusUnavailable == "unavailable"
DeploymentStatusDeploying == "deploying"
DeploymentStatusReady == "ready"
DeploymentStatusFailed == "failed"

BuildStatusPending == "pending"
BuildStatusBuilding == "building"
BuildStatusBuilt == "built"
BuildStatusFailed == "failed"

----------------------------------------------------------------------------
(* Store operations.  Every operation is one round trip to the backend; a   *)
(* read-modify-write update is a Get followed, in a later step, by a Set.  *)

\* CreateBuild: the record written for a build request
CreateBuild(commit) ==
    [commit |-> commit, status |-> BuildStatusPending,
     imageTag |-> "", imageID |-> "", size |-> 0]

\* UpdateBuildStatus: the record it writes back, from the one it read
UpdateBuildStatus(b, status) ==
    [b EXCEPT !.status = status]

\* ListBuildsByCommitHash: the records under the commit's key
ListBuildsByCommitHash(commit) ==
    IF commit \in DOMAIN builds THEN builds[commit] ELSE None

\* an UpdateBuildWithImage that writes the status and leaves the image out
UpdateBuildWithImageStatusOnly(b, status, imageTag, imageID, size) ==
    [b EXCEPT !.status = status]

\* UpdateBuildWithImage applied to record b
UpdateBuildWithImage(b, status, imageTag, imageID, size) ==
    [b EXCEPT !.status = status, !.imageTag = imageTag,
              !.imageID = imageID, !.size = size]

\* GetBuild: the value under nina-build-<commit>, or an error
GetBuild(commit) ==
    IF storeUp /\ commit \in DOMAIN builds THEN builds[commit] ELSE None

\* a CreateNewDeployment whose record starts as deploying
CreateNewDeploymentAsDeploying(id, app, commit) ==
    [id |-> id, app |-> app, commit |-> commit,
     status |-> DeploymentStatusDeploying, containers |-> <<>>]

\* CreateNewDeployment: the record written (and returned) for a request
CreateNewDeployment(id, app, commit) ==
    [id |-> id, app |-> app, commit |-> commit,
     status |-> DeploymentStatusUnavailable, containers |-> <<>>]

\* GetNewDeployment: the value under nina-deployment-<app>, or an error
GetNewDeployment(app) ==
    IF storeUp /\ app \in DOMAIN ndeps THEN ndeps[app] ELSE None

\* an UpdateNewDeploymentStatus that writes the record back without its
\* containers
UpdateNewDeploymentStatusDropsContainers(d, status) ==
    [d EXCEPT !.status = status, !.containers = <<>>]

\* UpdateNewDeploymentStatus: the record it writes back, from the one it read
UpdateNewDeploymentStatus(d, status) ==
    [d EXCEPT !.status = status]

\* an UpdateNewDeploymentWithContainers that leaves the status as it read it
UpdateNewDeploymentContainersOnly(d, containers, status) ==
    [d EXCEPT !.containers = containers]

\* UpdateNewDeploymentWithContainers: the record it writes back
UpdateNewDeploymentWithContainers(d, containers, status) ==
    [d EXCEPT !.containers = containers, !.status = status]

\* ListNewDeploymentsByAppName: the records under the app's key
ListNewDeploymentsByAppName(app) ==
    IF app \in DOMAIN ndeps THEN ndeps[app] ELSE None

----------------------------------------------------------------------------
(* Engine: pure helpers *)

\* validateBuildRequest: TRUE when the request is accepted
validateBuildRequest(app, bundle) ==
    ~(app = "" \/ bundle = "")

\* the golang buildpack's image tag
ImageTag(app, commit) == "nina-" \o app \o "-" \o commit

\* validateDeploymentRequest: TRUE when the request is accepted
validateDeploymentRequest(app, commit, replicas) ==
    ~(app = "" \/ commit = "")

\* a validateBuildForDeployment that accepts any recorded build
validateBuildForDeploymentAnyStatus(build) ==
    build # None

\* validateBuildForDeployment: TRUE when the looked-up build allows a deploy
validateBuildForDeployment(build) ==
    /\ build # None
    /\ build[1].status = BuildStatusBuilt

\* the golang buildpack's Build: the image it returns (the id is not empty:
\* Build fails when the build output carries none)
DeploymentImage(app, commit) ==
    [imageTag |-> ImageTag(app, commit), imageID |-> "sha256:1", size |-> 1]

\* strconv.Atoi as createAndStartContainer uses it: the error is dropped and
\* the value is then 0
Atoi(s) ==
    CASE s = "32768" -> 32768
      [] s = "32769" -> 32769
      [] OTHER -> 0

\* createAndStartContainer: the container record of a started replica
ContainerData(cid, imageTag, hostPort) ==
    [cid |-> cid, imageTag |-> imageTag, address |-> "localhost",
     port |-> Atoi(hostPort)]

\* the id the runtime gives the i-th container of deploy task t
ContainerID(t, i) == <<t, i>>

----------------------------------------------------------------------------
(* Initial state *)

IdleDeploy ==
    [pc |-> "idle", app |-> "", commit |-> "", replicas |-> 0, imageTag |-> "",
     i |-> 0, containers |-> <<>>, rec |-> None, resp |-> "", err |-> FALSE,
     deployment |-> None, cancelled |-> FALSE]

IdleDelete ==
    [pc |-> "idle", id |-> "", rec |-> None, i |-> 0, removed |-> 0, resp |-> ""]

IdleBuild ==
    [pc |-> "idle", app |-> "", commit |-> "", bundle |-> "", created |-> FALSE,
     rec |-> None, resp |-> "", deployment |-> None, cancelled |-> FALSE,
     written |-> 0]

\* the legacy structure of an empty store: deps is the set of the records
\* under deployment:<id>, names the set of the pairs <<name, id>> under
\* deployment:name:<name>
NoLegacy ==
    [deps |-> {}, names |-> {}]

IdleGet ==
    [pc |-> "idle", id |-> "", path |-> "", resp |-> "", item |-> None]

\* a goroutine that has not called CreateDeployment yet
IdleCall ==
    [pc |-> "idle", id |-> "", dep |-> None, err |-> ""]

\* no id has been generated, no call has returned; clock is the last
\* reading of the wall clock, calls the goroutines that call the store
\* concurrently
IdleLegacy ==
    [made |-> 0, created |-> {}, deleted |-> {},
     clock |-> 1, calls |-> [c \in Callers |-> IdleCall]]

IdleFetcher ==
    [pc |-> "idle", keys |-> <<>>, list |-> <<>>, fetches |-> 0, err |-> FALSE]

IdleRead ==
    [pc |-> "idle", n |-> 0, out |-> <<>>, req |-> None, host |-> "",
     deployment |-> None, container |-> None, resp |-> None, proxied |-> None]

\* NewIngress: no server, an open stopChan, an empty wait group; Stop has
\* not been called
NewIngress ==
    [server |-> "nil", stopChan |-> "open", wg |-> 0, stop |-> "idle", err |-> None]

IdleExtract ==
    [pc |-> "idle", tempDir |-> <<>>, entries |-> 0]

\* the disk before any extraction: the root and the temporary directory
InitialDisk ==
    [dirs |-> {<<"/">>, <<"/", "t">>}, files |-> {}]

\* The build records a build pipeline can leave under a commit's key
BuildRecords(c) ==
    { CreateBuild(c),
      [CreateBuild(c) EXCEPT !.status = BuildStatusBuilding],
      [CreateBuild(c) EXCEPT !.status = BuildStatusFailed],
      UpdateBuildWithImage(CreateBuild(c), BuildStatusBuilt, ImageTag("demo", c), "sha256:1", 1) }

\* The store outlives the Engine process: the Engine starts over whatever
\* build records earlier builds left, and with no deployment.
Init ==
    /\ builds \in [Commits -> {None} \cup {Some(b) : b \in UNION {BuildRecords(c) : c \in Commits}}]
    /\ \A c \in Commits : builds[c] # None => builds[c][1].commit = c
    /\ ndeps = [a \in Apps |-> None]
    /\ legacy = NoLegacy
    /\ gh = [g \in GetTasks |-> IdleGet]
    /\ lh = IdleLegacy
    /\ storeUp = TRUE
    /\ runtime = {}
    /\ dh = [t \in DeployTasks |-> IdleDeploy]
    /\ xh = [x \in DeleteTasks |-> IdleDelete]
    /\ bh = [b \in BuildTasks |-> IdleBuild]
    /\ scratch = {}
    /\ deployments = <<>>
    /\ deploymentsMux = [writer |-> FALSE, readers |-> 0]
    /\ fetcher = IdleFetcher
    /\ ih = [h \in ReadTasks |-> IdleRead]
    /\ installed = {<<>>}
    /\ ing = NewIngress
    /\ ex = IdleExtract
    /\ fs = InitialDisk

----------------------------------------------------------------------------
(* Store backend availability *)

StoreDown ==
    /\ storeUp
    /\ storeUp' = FALSE
    /\ UNCHANGED <<builds, ndeps, legacy, runtime, dh, xh, buildVars, ingressVars, archiveVars, gh, lh>>

StoreRecover ==
    /\ ~storeUp
    /\ storeUp' = TRUE
    /\ UNCHANGED <<builds, ndeps, legacy, runtime, dh, xh, buildVars, ingressVars, archiveVars, gh, lh>>

----------------------------------------------------------------------------
(* POST /deploy *)

\* requests already taken by the Engine or a CLI
Started ==
    Cardinality({t \in DeployTasks : dh[t].pc # "idle"})
        + Cardinality({x \in DeleteTasks : xh[x].pc # "idle"})

\* requests are taken in task order (the tasks are interchangeable)
DeployFree(t) ==
    /\ dh[t].pc = "idle"
    /\ \A u \in DeployTasks : u < t => dh[u].pc # "idle"
    /\ Started < MaxRequests

\* a DeploymentExists that never finds a deployment
DeploymentExistsNever(app) ==
    FALSE

\* CLI DeploymentExists: GET /deployments?app_name=<app> has a non-empty list
DeploymentExists(app) ==
    Len(ListNewDeploymentsByAppName(app)) > 0

\* CLI Deploy: the DeploymentExists precheck.  The CLI gives up when the
\* check fails or finds a deployment; otherwise it goes on to POST /deploy.
CliDeployCheck(t, app, commit, replicas) ==
    /\ DeployFree(t)
    /\ LET req == [dh[t] EXCEPT !.app = app, !.commit = commit, !.replicas = replicas] IN
       dh' = [dh EXCEPT ![t] =
                IF ~storeUp
                THEN [req EXCEPT !.pc = "done", !.resp = "cli: check failed"]
                ELSE IF DeploymentExists(app)
                THEN [req EXCEPT !.pc = "done", !.resp = "cli: already exists"]
                ELSE [req EXCEPT !.pc = "cliSend"]]
    /\ UNCHANGED <<builds, ndeps, legacy, storeUp, runtime, xh, buildVars, ingressVars, archiveVars, gh, lh>>

\* CLI Deploy: sendDeploymentRequest, the POST reaches the Engine
CliDeploySend(t) ==
    /\ dh[t].pc = "cliSend"
    /\ dh' = [dh EXCEPT ![t] = [@ EXCEPT !.pc = "post"]]
    /\ UNCHANGED <<builds, ndeps, legacy, storeUp, runtime, xh, buildVars, ingressVars, archiveVars, gh, lh>>

\* a client that POSTs /deploy directly
PostDeploy(t, app, commit, replicas) ==
    /\ DeployFree(t)
    /\ dh' = [dh EXCEPT ![t] = [@ EXCEPT !.pc = "post", !.app = app,
                                         !.commit = commit, !.replicas = replicas]]
    /\ UNCHANGED <<builds, ndeps, legacy, storeUp, runtime, xh, buildVars, ingressVars, archiveVars, gh, lh>>

\* deployHandler: request validation and build validation
DeployValidate(t) ==
    /\ dh[t].pc = "post"
    /\ LET d == dh[t]
           build == IF d.cancelled THEN None ELSE GetBuild(d.commit) IN
       dh' = [dh EXCEPT ![t] =
                IF ~validateDeploymentRequest(d.app, d.commit, d.replicas)
                THEN [@ EXCEPT !.pc = "done", !.resp = "400"]
                ELSE IF ~validateBuildForDeployment(build)
                THEN [@ EXCEPT !.pc = "done", !.resp = "400"]
                ELSE [@ EXCEPT !.pc = "create", !.imageTag = build[1].imageTag]]
    /\ UNCHANGED <<builds, ndeps, legacy, storeUp, runtime, xh, buildVars, ingressVars, archiveVars, gh, lh>>

\* createDeploymentRecord: CreateNewDeployment; the handler keeps the record
\* it returns (deployment) for the body of its reply
DeployCreate(t) ==
    /\ dh[t].pc = "create"
    /\ LET d == dh[t] IN
       IF ~storeUp \/ d.cancelled
       THEN /\ dh' = [dh EXCEPT ![t] = [@ EXCEPT !.pc = "done", !.resp = "500"]]
            /\ UNCHANGED ndeps
       ELSE /\ ndeps' = [ndeps EXCEPT ![d.app] = Some(CreateNewDeployment(t, d.app, d.commit))]
            /\ dh' = [dh EXCEPT ![t] =
                        [@ EXCEPT !.pc = "deployingGet",
                                  !.deployment = Some(CreateNewDeployment(t, d.app, d.commit))]]
    /\ UNCHANGED <<builds, legacy, storeUp, runtime, xh, buildVars, ingressVars, archiveVars, gh, lh>>

\* createDeploymentRecord: UpdateNewDeploymentStatus(deploying), its read.
\* An error is logged; the handler then replies 201 and starts the
\* background task.
DeployDeployingGet(t) ==
    /\ dh[t].pc = "deployingGet"
    /\ LET got == IF dh[t].cancelled THEN None ELSE GetNewDeployment(dh[t].app) IN
       dh' = [dh EXCEPT ![t] =
                IF got = None
                THEN [@ EXCEPT !.pc = "loop", !.resp = "201"]
                ELSE [@ EXCEPT !.pc = "deployingSet", !.rec = got]]
    /\ UNCHANGED <<builds, ndeps, legacy, storeUp, runtime, xh, buildVars, ingressVars, archiveVars, gh, lh>>

\* createDeploymentRecord: UpdateNewDeploymentStatus(deploying), its write;
\* then the reply 201 and the start of the background task
DeployDeployingSet(t) ==
    /\ dh[t].pc = "deployingSet"
    /\ LET d == dh[t] IN
       /\ ndeps' = IF storeUp /\ ~d.cancelled
                   THEN [ndeps EXCEPT ![d.app] =
                           Some(UpdateNewDeploymentStatus(d.rec[1], DeploymentStatusDeploying))]
                   ELSE ndeps
       /\ dh' = [dh EXCEPT ![t] = [@ EXCEPT !.pc = "loop", !.resp = "201", !.rec = None]]
    /\ UNCHANGED <<builds, legacy, storeUp, runtime, xh, buildVars, ingressVars, archiveVars, gh, lh>>

\* deployContainers: one iteration of the loop, createAndStartContainer.
\* outcome: "create" (ContainerCreate failed), "later" (ContainerStart,
\* ContainerInspect or the port lookup failed: the container exists), "ok".
DeployReplica(t, outcome, hostPort) ==
    /\ dh[t].pc = "loop"
    /\ dh[t].i < dh[t].replicas
    /\ LET d == dh[t]
           cid == ContainerID(t, d.i + 1) IN
       CASE outcome = "create" ->
              /\ dh' = [dh EXCEPT ![t] = [@ EXCEPT !.pc = "failedGet", !.err = TRUE]]
              /\ UNCHANGED runtime
         [] outcome = "later" ->
              /\ dh' = [dh EXCEPT ![t] = [@ EXCEPT !.pc = "failedGet", !.err = TRUE]]
              /\ runtime' = runtime \cup {cid}
         [] OTHER ->
              /\ dh' = [dh EXCEPT ![t] =
                          [@ EXCEPT !.i = d.i + 1,
                                    !.containers = Append(d.containers,
                                        ContainerData(cid, d.imageTag, hostPort))]]
              /\ runtime' = runtime \cup {cid}
    /\ UNCHANGED <<builds, ndeps, legacy, storeUp, xh, buildVars, ingressVars, archiveVars, gh, lh>>

\* deployContainers: UpdateNewDeploymentWithContainers(ready), its read
DeployReadyGet(t) ==
    /\ dh[t].pc = "loop"
    /\ ~(dh[t].i < dh[t].replicas)
    /\ LET got == GetNewDeployment(dh[t].app) IN
       dh' = [dh EXCEPT ![t] =
                IF got = None
                THEN [@ EXCEPT !.pc = "failedGet", !.err = TRUE]
                ELSE [@ EXCEPT !.pc = "readySet", !.rec = got]]
    /\ UNCHANGED <<builds, ndeps, legacy, storeUp, runtime, xh, buildVars, ingressVars, archiveVars, gh, lh>>

\* deployContainers: UpdateNewDeploymentWithContainers(ready), its write
DeployReadySet(t) ==
    /\ dh[t].pc = "readySet"
    /\ LET d == dh[t] IN
       IF storeUp
       THEN /\ ndeps' = [ndeps EXCEPT ![d.app] =
                           Some(UpdateNewDeploymentWithContainers(
                                   d.rec[1], d.containers, DeploymentStatusReady))]
            /\ dh' = [dh EXCEPT ![t] = [@ EXCEPT !.pc = "done", !.rec = None]]
       ELSE /\ dh' = [dh EXCEPT ![t] = [@ EXCEPT !.pc = "failedGet", !.rec = None, !.err = TRUE]]
            /\ UNCHANGED ndeps
    /\ UNCHANGED <<builds, legacy, storeUp, runtime, xh, buildVars, ingressVars, archiveVars, gh, lh>>

\* background task: UpdateNewDeploymentStatus(failed), its read
DeployFailedGet(t) ==
    /\ dh[t].pc = "failedGet"
    /\ LET got == GetNewDeployment(dh[t].app) IN
       dh' = [dh EXCEPT ![t] =
                IF got = None
                THEN [@ EXCEPT !.pc = "done"]
                ELSE [@ EXCEPT !.pc = "failedSet", !.rec = got]]
    /\ UNCHANGED <<builds, ndeps, legacy, storeUp, runtime, xh, buildVars, ingressVars, archiveVars, gh, lh>>

\* background task: UpdateNewDeploymentStatus(failed), its write
DeployFailedSet(t) ==
    /\ dh[t].pc = "failedSet"
    /\ LET d == dh[t] IN
       /\ ndeps' = IF storeUp
                   THEN [ndeps EXCEPT ![d.app] =
                           Some(UpdateNewDeploymentStatus(d.rec[1], DeploymentStatusFailed))]
                   ELSE ndeps
       /\ dh' = [dh EXCEPT ![t] = [@ EXCEPT !.pc = "done", !.rec = None]]
    /\ UNCHANGED <<builds, legacy, storeUp, runtime, xh, buildVars, ingressVars, archiveVars, gh, lh>>

\* the caller of POST /deploy disconnects, or the handler returns: the
\* request's context is cancelled.  The background task runs with
\* context.Background() and does not see it.
DeployDisconnect(t) ==
    /\ dh[t].pc \notin {"idle", "cliSend", "done"}
    /\ ~dh[t].cancelled
    /\ dh' = [dh EXCEPT ![t] = [@ EXCEPT !.cancelled = TRUE]]
    /\ UNCHANGED <<builds, ndeps, legacy, storeUp, runtime, xh, buildVars, ingressVars, archiveVars, gh, lh>>

----------------------------------------------------------------------------
(* DELETE /deployments/:id *)

DeleteFree(x) ==
    /\ xh[x].pc = "idle"
    /\ \A u \in DeleteTasks : u < x => xh[u].pc # "idle"
    /\ Started < MaxRequests

\* the names a provision request may carry
LegacyNames == {"web", "db"}

\* generateID: "deploy-" and the clock's nanoseconds, here the number of
\* the call
generateID(n) ==
    CASE n = 1 -> "deploy-1"
      [] n = 2 -> "deploy-2"
      [] n = 3 -> "deploy-3"
      [] n = 4 -> "deploy-4"
      [] OTHER -> "deploy-5"

\* GetDeployment (legacy structure): the record under deployment:<id>, or
\* an error
GetDeployment(id) ==
    LET found == {d \in legacy.deps : d.id = id} IN
    IF storeUp /\ found # {} THEN Some(CHOOSE d \in found : TRUE) ELSE None

\* GetDeploymentByName: the id under deployment:name:<name>, then
\* GetDeployment of that id
GetDeploymentByName(name) ==
    LET ids == {q[2] : q \in {r \in legacy.names : r[1] = name}} IN
    IF storeUp /\ ids # {} THEN GetDeployment(CHOOSE id \in ids : TRUE) ELSE None

\* SET deployment:<d.id>: the value replaces what the key held
SetDeployment(l, d) ==
    [l EXCEPT !.deps = {e \in @ : e.id # d.id} \cup {d}]

\* SET deployment:name:<name>: the id replaces what the name pointed to
SetName(l, name, id) ==
    [l EXCEPT !.names = {q \in @ : q[1] # name} \cup {<<name, id>>}]

\* CreateDeployment: the structure after SET deployment:<id> and SET
\* deployment:name:<name>
CreateDeployment(l, id, name) ==
    SetName(SetDeployment(l, [id |-> id, name |-> name, status |-> "creating"]),
            name, id)

\* DeleteDeployment of the record d it read: the structure after DEL
\* deployment:<id> and DEL deployment:name:<d.name>
DeleteDeployment(l, d) ==
    [deps |-> l.deps \ {d},
     names |-> {q \in l.names : q[1] # d.name}]

\* a lookup that takes the legacy path for an id found in neither place
deleteDeploymentLookupNo404(got, oldFound) ==
    IF got # None THEN "new" ELSE "old"

\* deleteDeploymentHandler: which way the handler goes after its lookups.
\* A deployment not found under nina-deployment-<id> is looked up as a
\* legacy one; one found in neither place is answered 404.
deleteDeploymentLookup(got, oldFound) ==
    IF got # None THEN "new"
    ELSE IF oldFound THEN "old"
    ELSE "notfound"

\* deleteDeploymentHandler: the lookups (and, for a legacy deployment, the
\* store's DeleteDeployment and the reply)
DeleteLookup(x, id) ==
    /\ DeleteFree(x)
    /\ LET got == GetNewDeployment(id)
           way == deleteDeploymentLookup(got, GetDeployment(id) # None) IN
       CASE way = "new" ->
              /\ xh' = [xh EXCEPT ![x] = [@ EXCEPT !.pc = "remove", !.id = id, !.rec = got]]
              /\ UNCHANGED legacy
         [] way = "old" ->
              \* the store's DeleteDeployment reads the record again and
              \* returns its error, which the handler answers with 500
              IF GetDeployment(id) = None
              THEN /\ xh' = [xh EXCEPT ![x] = [@ EXCEPT !.pc = "done", !.id = id, !.resp = "500"]]
                   /\ UNCHANGED legacy
              ELSE /\ legacy' = DeleteDeployment(legacy, GetDeployment(id)[1])
                   /\ xh' = [xh EXCEPT ![x] = [@ EXCEPT !.pc = "done", !.id = id, !.resp = "200"]]
         [] OTHER ->
              /\ xh' = [xh EXCEPT ![x] = [@ EXCEPT !.pc = "done", !.id = id, !.resp = "404"]]
              /\ UNCHANGED legacy
    /\ UNCHANGED <<builds, ndeps, storeUp, runtime, dh, buildVars, ingressVars, archiveVars, gh, lh>>

\* a count that takes every attempted removal for a successful one
containersRemovedCountsAttempts(removed, err) ==
    removed + 1

\* deleteDeploymentHandler: containersRemoved after one ContainerRemove,
\* which is counted when it returned no error
containersRemoved(removed, err) ==
    IF err THEN removed ELSE removed + 1

\* deleteDeploymentHandler: ContainerRemove of the next listed container;
\* a failed removal is logged and the loop goes on.  The removal of a
\* container the runtime does not have fails.
DeleteRemove(x, ok) ==
    /\ xh[x].pc = "remove"
    /\ xh[x].i < Len(xh[x].rec[1].containers)
    /\ LET cid == xh[x].rec[1].containers[xh[x].i + 1].cid
           err == ~(ok /\ cid \in runtime) IN
       /\ runtime' = IF err THEN runtime ELSE runtime \ {cid}
       /\ xh' = [xh EXCEPT ![x] = [@ EXCEPT !.i = @ + 1,
                                            !.removed = containersRemoved(@, err)]]
    /\ UNCHANGED <<builds, ndeps, legacy, storeUp, dh, buildVars, ingressVars, archiveVars, gh, lh>>

\* deleteDeploymentHandler: DeleteNewDeployment and the reply
DeleteStore(x) ==
    /\ xh[x].pc = "remove"
    /\ ~(xh[x].i < Len(xh[x].rec[1].containers))
    /\ IF storeUp
       THEN /\ ndeps' = [ndeps EXCEPT ![xh[x].id] = None]
            /\ xh' = [xh EXCEPT ![x] = [@ EXCEPT !.pc = "done", !.resp = "200"]]
       ELSE /\ UNCHANGED ndeps
            /\ xh' = [xh EXCEPT ![x] = [@ EXCEPT !.pc = "done", !.resp = "500"]]
    /\ UNCHANGED <<builds, legacy, storeUp, runtime, dh, buildVars, ingressVars, archiveVars, gh, lh>>

----------------------------------------------------------------------------
(* GET /deployments/:id, GET /deployments/:id/status and the legacy store *)

\* requests are taken in task order (the tasks are interchangeable)
GetFree(g) ==
    /\ gh[g].pc = "idle"
    /\ \A u \in GetTasks : u < g => gh[u].pc # "idle"

\* getDeploymentWrapper: the store's GetDeployment, the legacy structure
getDeploymentWrapper(id) ==
    GetDeployment(id)

\* getDeploymentHandler and getDeploymentStatusHandler: handleGetByID over
\* getDeploymentWrapper; any error is answered 404
GetDeploymentRequest(g, id, path) ==
    /\ GetFree(g)
    /\ LET item == getDeploymentWrapper(id) IN
       gh' = [gh EXCEPT ![g] = [pc |-> "done", id |-> id, path |-> path,
                                resp |-> IF item = None THEN "404" ELSE "200",
                                item |-> item]]
    /\ UNCHANGED <<builds, ndeps, legacy, storeUp, runtime, dh, xh, lh,
                   buildVars, ingressVars, archiveVars>>

\* a call of the store's CreateDeployment; over a store that does not
\* answer the first SET fails and nothing is stored
CreateDeploymentCall(name) ==
    /\ lh.made < MaxProvisions
    /\ LET id == generateID(lh.made + 1) IN
       IF storeUp
       THEN /\ legacy' = CreateDeployment(legacy, id, name)
            /\ lh' = [lh EXCEPT !.made = @ + 1,
                                !.created = @ \cup {[id |-> id, name |-> name]}]
       ELSE /\ UNCHANGED legacy
            /\ lh' = [lh EXCEPT !.made = @ + 1]
    /\ UNCHANGED <<builds, ndeps, storeUp, runtime, dh, xh, gh,
                   buildVars, ingressVars, archiveVars>>

\* a call of the store's DeleteDeployment with an id CreateDeployment has
\* generated; when its GetDeployment fails the call returns the error
DeleteDeploymentCall(id) ==
    /\ \E k \in 1..lh.made : id = generateID(k)
    /\ LET got == GetDeployment(id) IN
       IF got = None
       THEN UNCHANGED <<legacy, lh>>
       ELSE /\ legacy' = DeleteDeployment(legacy, got[1])
            /\ lh' = [lh EXCEPT !.deleted = @ \cup {id}]
    /\ UNCHANGED <<builds, ndeps, storeUp, runtime, dh, xh, gh,
                   buildVars, ingressVars, archiveVars>>

\* the name each concurrent caller provisions: the names are distinct
CallerName(c) ==
    CASE c = 1 -> "web"
      [] c = 2 -> "db"
      [] c = 3 -> "api"
      [] OTHER -> "cache"

\* CreateDeployment, its generateID: the id is made of the clock's reading,
\* and the clock may not have advanced since another goroutine read it
CallGenerate(c, tick) ==
    /\ lh.calls[c].pc = "idle"
    /\ LET now == lh.clock + tick IN
       lh' = [lh EXCEPT !.clock = now,
                        !.calls[c] = [@ EXCEPT !.pc = "set", !.id = generateID(now)]]
    /\ UNCHANGED <<builds, ndeps, legacy, storeUp, runtime, dh, xh, gh,
                   buildVars, ingressVars, archiveVars>>

\* CreateDeployment: SET deployment:<id>
CallSet(c) ==
    /\ lh.calls[c].pc = "set"
    /\ IF storeUp
       THEN /\ legacy' = SetDeployment(legacy, [id |-> lh.calls[c].id,
                                                name |-> CallerName(c),
                                                status |-> "creating"])
            /\ lh' = [lh EXCEPT !.calls[c] = [@ EXCEPT !.pc = "setName"]]
       ELSE /\ UNCHANGED legacy
            /\ lh' = [lh EXCEPT !.calls[c] = [@ EXCEPT !.pc = "done", !.err = "create"]]
    /\ UNCHANGED <<builds, ndeps, storeUp, runtime, dh, xh, gh,
                   buildVars, ingressVars, archiveVars>>

\* CreateDeployment: SET deployment:name:<name>, and the return
CallSetName(c) ==
    /\ lh.calls[c].pc = "setName"
    /\ IF storeUp
       THEN /\ legacy' = SetName(legacy, CallerName(c), lh.calls[c].id)
            /\ lh' = [lh EXCEPT !.calls[c] = [@ EXCEPT !.pc = "created"]]
       ELSE /\ UNCHANGED legacy
            /\ lh' = [lh EXCEPT !.calls[c] = [@ EXCEPT !.pc = "done", !.err = "create"]]
    /\ UNCHANGED <<builds, ndeps, storeUp, runtime, dh, xh, gh,
                   buildVars, ingressVars, archiveVars>>

\* DeleteDeployment of the id the caller received: its GetDeployment
CallDeleteGet(c) ==
    /\ lh.calls[c].pc = "created"
    /\ LET got == GetDeployment(lh.calls[c].id) IN
       lh' = [lh EXCEPT !.calls[c] =
                IF got = None
                THEN [@ EXCEPT !.pc = "done", !.err = "delete"]
                ELSE [@ EXCEPT !.pc = "del", !.dep = got]]
    /\ UNCHANGED <<builds, ndeps, legacy, storeUp, runtime, dh, xh, gh,
                   buildVars, ingressVars, archiveVars>>

\* DeleteDeployment: DEL deployment:<id>
CallDel(c) ==
    /\ lh.calls[c].pc = "del"
    /\ IF storeUp
       THEN /\ legacy' = [legacy EXCEPT !.deps = {e \in @ : e.id # lh.calls[c].id}]
            /\ lh' = [lh EXCEPT !.calls[c] = [@ EXCEPT !.pc = "delName"]]
       ELSE /\ UNCHANGED legacy
            /\ lh' = [lh EXCEPT !.calls[c] = [@ EXCEPT !.pc = "done", !.err = "delete"]]
    /\ UNCHANGED <<builds, ndeps, storeUp, runtime, dh, xh, gh,
                   buildVars, ingressVars, archiveVars>>

\* DeleteDeployment: DEL deployment:name:<name of the record read>, and
\* the return
CallDelName(c) ==
    /\ lh.calls[c].pc = "delName"
    /\ IF storeUp
       THEN /\ legacy' = [legacy EXCEPT !.names =
                            {q \in @ : q[1] # lh.calls[c].dep[1].name}]
            /\ lh' = [lh EXCEPT !.calls[c] = [@ EXCEPT !.pc = "done"]]
       ELSE /\ UNCHANGED legacy
            /\ lh' = [lh EXCEPT !.calls[c] = [@ EXCEPT !.pc = "done", !.err = "delete"]]
    /\ UNCHANGED <<builds, ndeps, storeUp, runtime, dh, xh, gh,
                   buildVars, ingressVars, archiveVars>>

\* Goroutines that each create a deployment of their own name and delete
\* the id they received, over a store that answers
NextConcurrent ==
    \/ \E c \in Callers, tick \in 0..1 : CallGenerate(c, tick)
    \/ \E c \in Callers : CallSet(c)
    \/ \E c \in Callers : CallSetName(c)
    \/ \E c \in Callers : CallDeleteGet(c)
    \/ \E c \in Callers : CallDel(c)
    \/ \E c \in Callers : CallDelName(c)

SpecConcurrent == Init /\ [][NextConcurrent]_vars

\* the ids a call may name
LegacyIDs == {generateID(k) : k \in 1..MaxProvisions}

\* Callers of the legacy store, one call after the other
NextLegacy ==
    \/ StoreDown
    \/ StoreRecover
    \/ \E name \in LegacyNames : CreateDeploymentCall(name)
    \/ \E id \in LegacyIDs : DeleteDeploymentCall(id)

SpecLegacy == Init /\ [][NextLegacy]_vars

----------------------------------------------------------------------------

Next ==
    \/ StoreDown
    \/ StoreRecover
    \/ \E t \in DeployTasks, a \in Apps, c \in Commits, n \in ReqReplicas : CliDeployCheck(t, a, c, n)
    \/ \E t \in DeployTasks : CliDeploySend(t)
    \/ \E t \in DeployTasks, a \in ReqApps, c \in ReqCommits, n \in ReqReplicas : PostDeploy(t, a, c, n)
    \/ \E t \in DeployTasks : DeployValidate(t)
    \/ \E t \in DeployTasks : DeployCreate(t)
    \/ \E t \in DeployTasks : DeployDeployingGet(t)
    \/ \E t \in DeployTasks : DeployDeployingSet(t)
    \/ \E t \in DeployTasks, o \in {"create", "later"} : DeployReplica(t, o, "")
    \/ \E t \in DeployTasks, p \in HostPorts : DeployReplica(t, "ok", p)
    \/ \E t \in DeployTasks : DeployReadyGet(t)
    \/ \E t \in DeployTasks : DeployReadySet(t)
    \/ \E t \in DeployTasks : DeployFailedGet(t)
    \/ \E t \in DeployTasks : DeployFailedSet(t)
    \/ \E x \in DeleteTasks, id \in Apps : DeleteLookup(x, id)
    \/ \E x \in DeleteTasks, ok \in BOOLEAN : DeleteRemove(x, ok)
    \/ \E x \in DeleteTasks : DeleteStore(x)

Spec == Init /\ [][Next]_vars

----------------------------------------------------------------------------
(* POST /build *)

\* requests are taken in task order (the tasks are interchangeable)
BuildFree(b) ==
    /\ bh[b].pc = "idle"
    /\ \A u \in BuildTasks : u < b => bh[u].pc # "idle"

\* CLI BuildExists: GET /builds?commit_hash=<commit> has a non-empty list
BuildExists(commit) ==
    Len(ListBuildsByCommitHash(commit)) > 0

\* CLI Build: the BuildExists precheck.  The CLI gives up when the check
\* fails or finds a build; otherwise it bundles the tree and POSTs /build.
CliBuildCheck(b, app, commit) ==
    /\ BuildFree(b)
    /\ LET req == [bh[b] EXCEPT !.app = app, !.commit = commit, !.bundle = "tgz"] IN
       bh' = [bh EXCEPT ![b] =
                IF ~storeUp
                THEN [req EXCEPT !.pc = "done", !.resp = "cli: check failed"]
                ELSE IF BuildExists(commit)
                THEN [req EXCEPT !.pc = "done", !.resp = "cli: already exists"]
                ELSE [req EXCEPT !.pc = "cliSend"]]
    /\ UNCHANGED <<builds, storeUp, deployVars, ingressVars, archiveVars, scratch>>

\* CLI Build: sendBuildRequest, the POST reaches the Engine
CliBuildSend(b) ==
    /\ bh[b].pc = "cliSend"
    /\ bh' = [bh EXCEPT ![b] = [@ EXCEPT !.pc = "post"]]
    /\ UNCHANGED <<builds, storeUp, deployVars, ingressVars, archiveVars, scratch>>

\* a client that POSTs /build directly
PostBuild(b, app, commit, bundle) ==
    /\ BuildFree(b)
    /\ bh' = [bh EXCEPT ![b] = [@ EXCEPT !.pc = "post", !.app = app,
                                         !.commit = commit, !.bundle = bundle]]
    /\ UNCHANGED <<builds, storeUp, deployVars, ingressVars, archiveVars, scratch>>

\* The handlers derive ctx from the request's context: it is done once the
\* caller has disconnected (cancelled), and a store or runtime call made
\* with a context that is done returns its error.

\* buildHandler: request validation and createBuildRecord (CreateBuild)
BuildCreate(b) ==
    /\ bh[b].pc = "post"
    /\ LET r == bh[b] IN
       IF ~validateBuildRequest(r.app, r.bundle)
       THEN /\ bh' = [bh EXCEPT ![b] = [@ EXCEPT !.pc = "done", !.resp = "400"]]
            /\ UNCHANGED builds
       ELSE IF ~storeUp \/ r.cancelled
       THEN /\ bh' = [bh EXCEPT ![b] = [@ EXCEPT !.pc = "done", !.resp = "500"]]
            /\ UNCHANGED builds
       ELSE /\ builds' = [builds EXCEPT ![r.commit] = Some(CreateBuild(r.commit))]
            /\ bh' = [bh EXCEPT ![b] = [@ EXCEPT !.pc = "extract", !.created = TRUE]]
    /\ UNCHANGED <<storeUp, deployVars, ingressVars, archiveVars, scratch>>

\* the per-entry limit of extractTarEntry, 10*1024*1024 bytes, in MiB
EntryLimitMiB == 10

\* the bundles a request carries: none, a gzipped tar of small files, and
\* a gzipped tar with one file larger than the per-entry limit
Bundles == {"", "tgz", "tgzBig"}

\* the size in MiB of the file a bundle carries
EntrySize(bundle) ==
    IF bundle = "tgzBig" THEN EntryLimitMiB + 1 ELSE 1

\* extractTarEntry: io.Copy(file, io.LimitReader(tarReader, limit)), the
\* MiB written.  The limited reader ends at the limit with io.EOF, which
\* io.Copy takes for the end of the content: no error is returned.
CopyLimited(size) ==
    [written |-> IF size > EntryLimitMiB THEN EntryLimitMiB ELSE size, err |-> FALSE]

\* extractAndMatchBundle: ExtractBundle (NewBundle).  outcome: "decode"
\* (base64 or gzip failed, before the scratch directory is made), "tar"
\* (an entry failed, after it is made), "ok".
BuildExtract(b, outcome) ==
    /\ bh[b].pc = "extract"
    /\ scratch' = IF outcome = "decode" THEN scratch ELSE scratch \cup {<<b, "bundle">>}
    /\ LET copied == CopyLimited(EntrySize(bh[b].bundle)) IN
       bh' = [bh EXCEPT ![b] =
                IF outcome = "ok" /\ ~copied.err
                THEN [@ EXCEPT !.pc = "match", !.written = copied.written]
                ELSE [@ EXCEPT !.pc = "failedGet"]]
    /\ UNCHANGED <<builds, storeUp, deployVars, ingressVars, archiveVars>>

\* extractAndMatchBundle: MatchBuildpack, which extracts the bundle again
\* into a scratch directory of its own.  outcome: "tar" (that extraction
\* failed), "none" (no buildpack matched), "ok".
BuildMatch(b, outcome) ==
    /\ bh[b].pc = "match"
    /\ scratch' = scratch \cup {<<b, "match">>}
    /\ bh' = [bh EXCEPT ![b] = [@ EXCEPT !.pc = IF outcome = "ok" THEN "buildingGet" ELSE "failedGet"]]
    /\ UNCHANGED <<builds, storeUp, deployVars, ingressVars, archiveVars>>

\* buildProject: UpdateBuildStatus(building), its read; an error is logged
BuildBuildingGet(b) ==
    /\ bh[b].pc = "buildingGet"
    /\ LET got == IF bh[b].cancelled THEN None ELSE GetBuild(bh[b].commit) IN
       bh' = [bh EXCEPT ![b] =
                IF got = None
                THEN [@ EXCEPT !.pc = "run"]
                ELSE [@ EXCEPT !.pc = "buildingSet", !.rec = got]]
    /\ UNCHANGED <<builds, storeUp, deployVars, ingressVars, archiveVars, scratch>>

\* buildProject: UpdateBuildStatus(building), its write
BuildBuildingSet(b) ==
    /\ bh[b].pc = "buildingSet"
    /\ builds' = IF storeUp /\ ~bh[b].cancelled
                 THEN [builds EXCEPT ![bh[b].commit] =
                         Some(UpdateBuildStatus(bh[b].rec[1], BuildStatusBuilding))]
                 ELSE builds
    /\ bh' = [bh EXCEPT ![b] = [@ EXCEPT !.pc = "run", !.rec = None]]
    /\ UNCHANGED <<storeUp, deployVars, ingressVars, archiveVars, scratch>>

\* buildProject: buildpack.Build, which calls the runtime with ctx
BuildRun(b, ok) ==
    /\ bh[b].pc = "run"
    /\ bh' = [bh EXCEPT ![b] =
                IF ok /\ ~bh[b].cancelled
                THEN [@ EXCEPT !.pc = "builtGet",
                               !.deployment = Some(DeploymentImage(bh[b].app, bh[b].commit))]
                ELSE [@ EXCEPT !.pc = "failedGet"]]
    /\ UNCHANGED <<builds, storeUp, deployVars, ingressVars, archiveVars, scratch>>

\* buildProject: UpdateBuildWithImage(built), its read; an error is logged
BuildBuiltGet(b) ==
    /\ bh[b].pc = "builtGet"
    /\ LET got == IF bh[b].cancelled THEN None ELSE GetBuild(bh[b].commit) IN
       bh' = [bh EXCEPT ![b] =
                IF got = None
                THEN [@ EXCEPT !.pc = "cleanup"]
                ELSE [@ EXCEPT !.pc = "builtSet", !.rec = got]]
    /\ UNCHANGED <<builds, storeUp, deployVars, ingressVars, archiveVars, scratch>>

\* buildProject: UpdateBuildWithImage(built), its write
BuildBuiltSet(b) ==
    /\ bh[b].pc = "builtSet"
    /\ LET r == bh[b]
           image == r.deployment[1] IN
       builds' = IF storeUp /\ ~r.cancelled
                 THEN [builds EXCEPT ![r.commit] =
                         Some(UpdateBuildWithImage(r.rec[1], BuildStatusBuilt,
                                                   image.imageTag, image.imageID, image.size))]
                 ELSE builds
    /\ bh' = [bh EXCEPT ![b] = [@ EXCEPT !.pc = "cleanup", !.rec = None]]
    /\ UNCHANGED <<storeUp, deployVars, ingressVars, archiveVars, scratch>>

\* a buildProject that treats a failed Cleanup as a failed build
buildProjectFailsOnCleanup(ok) ==
    IF ok THEN "done" ELSE "failedGet"

\* buildProject: where the handler goes after bundle.Cleanup; a failure is
\* logged and the image is returned all the same
buildProjectAfterCleanup(ok) ==
    "done"

\* buildProject: bundle.Cleanup and the reply 201
BuildCleanup(b, ok) ==
    /\ bh[b].pc = "cleanup"
    /\ scratch' = IF ok THEN scratch \ {<<b, "bundle">>} ELSE scratch
    /\ bh' = [bh EXCEPT ![b] =
                IF buildProjectAfterCleanup(ok) = "done"
                THEN [@ EXCEPT !.pc = "done", !.resp = "201"]
                ELSE [@ EXCEPT !.pc = buildProjectAfterCleanup(ok)]]
    /\ UNCHANGED <<builds, storeUp, deployVars, ingressVars, archiveVars>>

\* a failed step: UpdateBuildStatus(failed), its read; then the reply 500
BuildFailedGet(b) ==
    /\ bh[b].pc = "failedGet"
    /\ LET got == IF bh[b].cancelled THEN None ELSE GetBuild(bh[b].commit) IN
       bh' = [bh EXCEPT ![b] =
                IF got = None
                THEN [@ EXCEPT !.pc = "done", !.resp = "500"]
                ELSE [@ EXCEPT !.pc = "failedSet", !.rec = got]]
    /\ UNCHANGED <<builds, storeUp, deployVars, ingressVars, archiveVars, scratch>>

\* a failed step: UpdateBuildStatus(failed), its write; then the reply 500
BuildFailedSet(b) ==
    /\ bh[b].pc = "failedSet"
    /\ builds' = IF storeUp /\ ~bh[b].cancelled
                 THEN [builds EXCEPT ![bh[b].commit] =
                         Some(UpdateBuildStatus(bh[b].rec[1], BuildStatusFailed))]
                 ELSE builds
    /\ bh' = [bh EXCEPT ![b] = [@ EXCEPT !.pc = "done", !.resp = "500", !.rec = None]]
    /\ UNCHANGED <<storeUp, deployVars, ingressVars, archiveVars, scratch>>

\* the caller of POST /build disconnects while the handler runs: the
\* request's context is cancelled
BuildDisconnect(b) ==
    /\ bh[b].pc \notin {"idle", "cliSend", "done"}
    /\ ~bh[b].cancelled
    /\ bh' = [bh EXCEPT ![b] = [@ EXCEPT !.cancelled = TRUE]]
    /\ UNCHANGED <<builds, storeUp, deployVars, ingressVars, archiveVars, scratch>>

\* a fresh store: no build has been recorded
InitBuild ==
    /\ Init
    /\ \A c \in Commits : builds[c] = None

NextBuild ==
    \/ StoreDown
    \/ StoreRecover
    \/ \E b \in BuildTasks, a \in Apps, c \in Commits : CliBuildCheck(b, a, c)
    \/ \E b \in BuildTasks : CliBuildSend(b)
    \/ \E b \in BuildTasks, a \in ReqApps, c \in Commits, z \in Bundles : PostBuild(b, a, c, z)
    \/ \E b \in BuildTasks : BuildCreate(b)
    \/ \E b \in BuildTasks, o \in {"decode", "tar", "ok"} : BuildExtract(b, o)
    \/ \E b \in BuildTasks, o \in {"tar", "none", "ok"} : BuildMatch(b, o)
    \/ \E b \in BuildTasks : BuildBuildingGet(b)
    \/ \E b \in BuildTasks : BuildBuildingSet(b)
    \/ \E b \in BuildTasks, ok \in BOOLEAN : BuildRun(b, ok)
    \/ \E b \in BuildTasks : BuildBuiltGet(b)
    \/ \E b \in BuildTasks : BuildBuiltSet(b)
    \/ \E b \in BuildTasks, ok \in BOOLEAN : BuildCleanup(b, ok)
    \/ \E b \in BuildTasks : BuildFailedGet(b)
    \/ \E b \in BuildTasks : BuildFailedSet(b)
    \/ \E b \in BuildTasks : BuildDisconnect(b)

SpecBuild == InitBuild /\ [][NextBuild]_vars

\* Builds whose every caller is the CLI, which POSTs /build only after its
\* BuildExists precheck found no build of the commit
NextPrecheck ==
    \/ \E b \in BuildTasks, a \in Apps, c \in Commits : CliBuildCheck(b, a, c)
    \/ \E b \in BuildTasks : CliBuildSend(b)
    \/ \E b \in BuildTasks : BuildCreate(b)
    \/ \E b \in BuildTasks, o \in {"decode", "tar", "ok"} : BuildExtract(b, o)
    \/ \E b \in BuildTasks, o \in {"tar", "none", "ok"} : BuildMatch(b, o)
    \/ \E b \in BuildTasks : BuildBuildingGet(b)
    \/ \E b \in BuildTasks : BuildBuildingSet(b)
    \/ \E b \in BuildTasks, ok \in BOOLEAN : BuildRun(b, ok)
    \/ \E b \in BuildTasks : BuildBuiltGet(b)
    \/ \E b \in BuildTasks : BuildBuiltSet(b)
    \/ \E b \in BuildTasks, ok \in BOOLEAN : BuildCleanup(b, ok)
    \/ \E b \in BuildTasks : BuildFailedGet(b)
    \/ \E b \in BuildTasks : BuildFailedSet(b)

SpecPrecheck == InitBuild /\ [][NextPrecheck]_vars

----------------------------------------------------------------------------
(* Ingress: the snapshot of deployments, its refresher and its readers *)

\* a KEYS whose pattern matches no deployment key
KeyOrdersNone(S) ==
    {<<>>}

\* the orders in which KEYS may list the keys in S
KeyOrders(S) ==
    {q \in [1..Cardinality(S) -> S] :
        \A j, k \in 1..Cardinality(S) : j # k => q[j] # q[k]}

\* fmt.Errorf(msg + ": %w", err): an error value, also when err is nil
Errorf(msg, err) ==
    Some(msg \o ": " \o (IF err = None THEN "%!w(<nil>)" ELSE err[1]))

\* Ingress.Start, up to the wait for the context: the refresher goroutine
\* is started (wg.Add(1)) and the server is made and listens
IngressStart ==
    /\ ing.server = "nil"
    /\ ing.stop = "idle"
    /\ ing' = [ing EXCEPT !.wg = 1, !.server = "serving"]
    /\ UNCHANGED <<builds, storeUp, deployVars, buildVars, archiveVars,
                   deployments, deploymentsMux, fetcher, ih, installed>>

\* the zero value of an element of a freshly made []*types.Deployment
NilDeployment ==
    [id |-> 0, app |-> "", commit |-> "", status |-> "", containers |-> <<>>]

\* a Lock that does not wait for anybody
LockUnguarded(mux) ==
    TRUE

\* sync.RWMutex.Lock: the writer gets the lock when nobody holds it
CanLock(mux) ==
    ~mux.writer /\ mux.readers = 0

\* sync.RWMutex.RLock: a reader gets the lock when no writer holds it
CanRLock(mux) ==
    ~mux.writer

\* make([]*types.Deployment, n) followed by copy(dst, src): the first
\* min(n, len(src)) elements are src's, the rest stay nil
MakeAndCopy(n, src) ==
    [k \in 1..n |-> IF k <= Len(src) THEN src[k] ELSE NilDeployment]

\* a fetchDeployments that installs the nil list an error comes with
fetchDeploymentsErrInstallsNil(snapshot) ==
    <<>>

\* fetchDeployments: the snapshot after ListNewDeployments returned an
\* error; the error is logged and the function returns
fetchDeploymentsErr(snapshot) ==
    snapshot

\* fetchDeployments, ListNewDeployments: KEYS nina-deployment-*, the only
\* call whose error ListNewDeployments returns
FetchKeys ==
    /\ ing.wg = 1
    /\ fetcher.pc = "idle"
    /\ fetcher.fetches < MaxFetches
    /\ IF storeUp
       THEN /\ \E keys \in KeyOrders({a \in DOMAIN ndeps : ndeps[a] # None}) :
                  fetcher' = [fetcher EXCEPT !.pc = "get", !.fetches = @ + 1, !.err = FALSE,
                                             !.list = <<>>, !.keys = keys]
            /\ UNCHANGED deployments
       ELSE /\ fetcher' = [fetcher EXCEPT !.fetches = @ + 1, !.err = TRUE]
            /\ deployments' = fetchDeploymentsErr(deployments)
    /\ UNCHANGED <<builds, storeUp, deployVars, buildVars, archiveVars,
                   deploymentsMux, ih, installed, ing>>

\* ListNewDeployments: GET of the next key; a key that cannot be read is
\* skipped
FetchGet ==
    /\ fetcher.pc = "get"
    /\ fetcher.keys # <<>>
    /\ LET got == GetNewDeployment(Head(fetcher.keys)) IN
       fetcher' = [fetcher EXCEPT !.keys = Tail(@),
                                  !.list = IF got = None THEN @ ELSE Append(@, got[1])]
    /\ UNCHANGED <<builds, storeUp, deployVars, buildVars, archiveVars,
                   deployments, deploymentsMux, ih, installed, ing>>

\* fetchDeployments: deploymentsMux.Lock()
FetchLock ==
    /\ fetcher.pc = "get"
    /\ fetcher.keys = <<>>
    /\ CanLock(deploymentsMux)
    /\ deploymentsMux' = [deploymentsMux EXCEPT !.writer = TRUE]
    /\ fetcher' = [fetcher EXCEPT !.pc = "assign"]
    /\ UNCHANGED <<builds, storeUp, deployVars, buildVars, archiveVars,
                   deployments, ih, installed, ing>>

\* fetchDeployments: i.deployments = deployments
FetchAssign ==
    /\ fetcher.pc = "assign"
    /\ deployments' = fetcher.list
    /\ installed' = installed \cup {fetcher.list}
    /\ fetcher' = [fetcher EXCEPT !.pc = "unlock"]
    /\ UNCHANGED <<builds, storeUp, deployVars, buildVars, archiveVars,
                   deploymentsMux, ih, ing>>

\* fetchDeployments: deploymentsMux.Unlock(); the fetcher waits for the
\* next tick
FetchUnlock ==
    /\ fetcher.pc = "unlock"
    /\ deploymentsMux' = [deploymentsMux EXCEPT !.writer = FALSE]
    /\ fetcher' = [fetcher EXCEPT !.pc = "idle", !.list = <<>>]
    /\ UNCHANGED <<builds, storeUp, deployVars, buildVars, archiveVars,
                   deployments, ih, installed, ing>>

\* Stop may go on when the wait group's counter has this value
WaitNoJoin(wg) ==
    TRUE

\* sync.WaitGroup.Wait: returns when the counter is zero
WaitDone(wg) ==
    wg = 0

\* deploymentFetcher: the select takes <-i.stopChan; the goroutine returns
\* and the deferred wg.Done runs.  The first fetchDeployments comes before
\* the select.
FetcherExit ==
    /\ ing.wg = 1
    /\ fetcher.pc = "idle"
    /\ fetcher.fetches > 0
    /\ ing.stopChan = "closed"
    /\ fetcher' = [fetcher EXCEPT !.pc = "exited"]
    /\ ing' = [ing EXCEPT !.wg = 0]
    /\ UNCHANGED <<builds, storeUp, deployVars, buildVars, archiveVars,
                   deployments, deploymentsMux, ih, installed>>

\* Ingress.Stop: close(i.stopChan)
StopClose ==
    /\ ing.stop = "idle"
    /\ ing' = [ing EXCEPT !.stopChan = "closed", !.stop = "wait"]
    /\ UNCHANGED <<builds, storeUp, deployVars, buildVars, archiveVars,
                   deployments, deploymentsMux, fetcher, ih, installed>>

\* Ingress.Stop: i.wg.Wait() returns; without a server Stop returns nil,
\* with one it calls server.Shutdown, which first closes the listener
StopWait ==
    /\ ing.stop = "wait"
    /\ WaitDone(ing.wg)
    /\ ing' = IF ing.server = "nil"
              THEN [ing EXCEPT !.stop = "returned", !.err = None]
              ELSE [ing EXCEPT !.stop = "shutdown", !.server = "closing"]
    /\ UNCHANGED <<builds, storeUp, deployVars, buildVars, archiveVars,
                   deployments, deploymentsMux, fetcher, ih, installed>>

\* Ingress.Stop: server.Shutdown returns, nil once no request is being
\* served, an error when the shutdown failed; Stop returns the result
\* wrapped by fmt.Errorf
StopShutdown(ok) ==
    /\ ing.stop = "shutdown"
    /\ ok => \A h \in ReadTasks : ih[h].pc \in {"idle", "done"}
    /\ ing' = [ing EXCEPT !.stop = "returned", !.server = "closed",
                          !.err = Errorf("failed to shutdown ingress",
                                         IF ok THEN None ELSE Some("shutdown failed"))]
    /\ UNCHANGED <<builds, storeUp, deployVars, buildVars, archiveVars,
                   deployments, deploymentsMux, fetcher, ih, installed>>

\* requests are taken in task order (the tasks are interchangeable)
ReadFree(h) ==
    /\ ih[h].pc = "idle"
    /\ \A u \in ReadTasks : u < h => ih[u].pc # "idle"

\* the Host values a request may carry, in pieces: a bare name, a name
\* with a port, a name no deployment has with a port, and no host at all
RawHosts == {<<"demo">>, <<"demo", ":", "8080">>, <<"api">>, <<"nope", ":", "8080">>, <<>>}

\* strings.Contains(host, ":")
ContainsColon(raw) ==
    \E k \in 1..Len(raw) : raw[k] = ":"

\* strings.Split(host, ":")[0]: what stands before the first ":"
RECURSIVE BeforeColon(_)
BeforeColon(raw) ==
    IF raw = <<>> \/ Head(raw) = ":" THEN ""
    ELSE Head(raw) \o BeforeColon(Tail(raw))

\* the pieces of a host put together
RECURSIVE HostString(_)
HostString(raw) ==
    IF raw = <<>> THEN "" ELSE Head(raw) \o HostString(Tail(raw))

\* extractHost: r.Host with the port removed
extractHost(raw) ==
    IF ContainsColon(raw) THEN BeforeColon(raw) ELSE HostString(raw)

\* a findDeploymentByAppName that answers with the first deployment of the
\* list whatever its app_name
findDeploymentFirst(list, appName) ==
    IF list = <<>> THEN None ELSE Some(list[1])

\* findDeploymentByAppName, its loop: the first deployment of the list whose
\* AppName is appName, or nil
findDeploymentByAppName(list, appName) ==
    LET hits == {k \in 1..Len(list) : list[k].app = appName} IN
    IF hits = {} THEN None
    ELSE Some(list[CHOOSE k \in hits : \A j \in hits : k <= j])

\* a selectRandomReplica that answers with a container of its own when the
\* deployment has none
selectRandomReplicaInvents(d, k, rngOk) ==
    IF Len(d.containers) = 0
    THEN Some([cid |-> <<0, 0>>, imageTag |-> "", address |-> "localhost", port |-> 0])
    ELSE Some(d.containers[IF rngOk THEN k ELSE 1])

\* selectRandomReplica: nil for a deployment without containers, else the
\* container at the index rand.Int gave, the first one when rand.Int failed
selectRandomReplica(d, k, rngOk) ==
    IF Len(d.containers) = 0 THEN None
    ELSE Some(d.containers[IF rngOk THEN k ELSE 1])

\* a handleUnknownApplication that answers 503
handleUnknownApplicationAs503 ==
    [code |-> 503, error |-> "unknown_application", message |-> "unknown application"]

\* handleUnknownApplication: the status and the JSON body
handleUnknownApplication ==
    [code |-> 404, error |-> "unknown_application", message |-> "unknown application"]

\* a handleNoReplicasAvailable that answers 404
handleNoReplicasAvailableAs404 ==
    [code |-> 404, error |-> "no_replicas_available", message |-> "no replicas available"]

\* handleNoReplicasAvailable: the status and the JSON body
handleNoReplicasAvailable ==
    [code |-> 503, error |-> "no_replicas_available", message |-> "no replicas available"]

\* url.Parse of "http://<address>:<port>": fails on a port that is no
\* number of the decimal digits
ParseOK(container) ==
    container.port >= 0

\* a director that leaves the header unset
DirectorHeaderUnset(container) ==
    <<>>

\* createProxy, the director: X-Nina-Replica-Container-ID
DirectorHeader(container) ==
    container.cid

\* createProxy: the target of the reverse proxy and the outbound request's
\* Host and X-Nina-Replica-Container-ID
createProxy(container) ==
    [target |-> [address |-> container.address, port |-> container.port],
     host |-> [address |-> container.address, port |-> container.port],
     header |-> DirectorHeader(container)]

\* the server hands a request to handleRequest: extractHost
HandleRequest(h, raw) ==
    /\ ReadFree(h)
    /\ ing.server = "serving"
    /\ ih' = [ih EXCEPT ![h] = [@ EXCEPT !.pc = "recv", !.req = Some(raw),
                                         !.host = extractHost(raw)]]
    /\ UNCHANGED <<builds, storeUp, deployVars, buildVars, archiveVars,
                   deployments, deploymentsMux, fetcher, installed, ing>>

\* handleRequest: findDeploymentByAppName over the list getDeployments
\* returned; nil is answered by handleUnknownApplication
HandleFind(h) ==
    /\ ih[h].pc = "find"
    /\ LET found == findDeploymentByAppName(ih[h].out, ih[h].host) IN
       ih' = [ih EXCEPT ![h] =
                IF found = None
                THEN [@ EXCEPT !.pc = "done", !.resp = Some(handleUnknownApplication)]
                ELSE [@ EXCEPT !.pc = "select", !.deployment = found]]
    /\ UNCHANGED <<builds, storeUp, deployVars, buildVars, archiveVars,
                   deployments, deploymentsMux, fetcher, installed, ing>>

\* handleRequest: selectRandomReplica; nil is answered by
\* handleNoReplicasAvailable
HandleSelect(h, k, rngOk) ==
    /\ ih[h].pc = "select"
    /\ k = 1 \/ k \in 1..Len(ih[h].deployment[1].containers)
    /\ LET chosen == selectRandomReplica(ih[h].deployment[1], k, rngOk) IN
       ih' = [ih EXCEPT ![h] =
                IF chosen = None
                THEN [@ EXCEPT !.pc = "done", !.resp = Some(handleNoReplicasAvailable)]
                ELSE [@ EXCEPT !.pc = "proxy", !.container = chosen]]
    /\ UNCHANGED <<builds, storeUp, deployVars, buildVars, archiveVars,
                   deployments, deploymentsMux, fetcher, installed, ing>>

\* handleRequest: createProxy and proxy.ServeHTTP.  up: the upstream
\* answered, or the transport failed and the error handler answers 502.
HandleProxy(h, up) ==
    /\ ih[h].pc = "proxy"
    /\ LET c == ih[h].container[1] IN
       ih' = [ih EXCEPT ![h] =
                IF ~ParseOK(c)
                THEN [@ EXCEPT !.pc = "done",
                               !.resp = Some([code |-> 500, error |-> "", message |-> ""])]
                ELSE [@ EXCEPT !.pc = "done", !.proxied = Some(createProxy(c)),
                               !.resp = Some([code |-> IF up THEN 200 ELSE 502,
                                              error |-> "", message |-> ""])]]
    /\ UNCHANGED <<builds, storeUp, deployVars, buildVars, archiveVars,
                   deployments, deploymentsMux, fetcher, installed, ing>>

\* getDeployments: deploymentsMux.RLock()
ReadRLock(h) ==
    /\ ReadFree(h) \/ ih[h].pc = "recv"
    /\ CanRLock(deploymentsMux)
    /\ deploymentsMux' = [deploymentsMux EXCEPT !.readers = @ + 1]
    /\ ih' = [ih EXCEPT ![h] = [@ EXCEPT !.pc = "make"]]
    /\ UNCHANGED <<builds, storeUp, deployVars, buildVars, archiveVars,
                   deployments, fetcher, installed, ing>>

\* getDeployments: make([]*types.Deployment, len(i.deployments))
ReadMake(h) ==
    /\ ih[h].pc = "make"
    /\ ih' = [ih EXCEPT ![h] = [@ EXCEPT !.pc = "copy", !.n = Len(deployments)]]
    /\ UNCHANGED <<builds, storeUp, deployVars, buildVars, archiveVars,
                   deployments, deploymentsMux, fetcher, installed, ing>>

\* getDeployments: copy(deployments, i.deployments)
ReadCopy(h) ==
    /\ ih[h].pc = "copy"
    /\ ih' = [ih EXCEPT ![h] = [@ EXCEPT !.pc = "unlock", !.n = 0,
                                         !.out = MakeAndCopy(ih[h].n, deployments)]]
    /\ UNCHANGED <<builds, storeUp, deployVars, buildVars, archiveVars,
                   deployments, deploymentsMux, fetcher, installed, ing>>

\* a getDeployments that returns with the shared lock still held
RUnlockKept(mux) ==
    mux

\* deploymentsMux.RUnlock(), deferred by getDeployments: the lock after it
RUnlock(mux) ==
    [mux EXCEPT !.readers = @ - 1]

\* getDeployments: the deferred deploymentsMux.RUnlock() and the return
ReadRUnlock(h) ==
    /\ ih[h].pc = "unlock"
    /\ deploymentsMux' = RUnlock(deploymentsMux)
    /\ ih' = [ih EXCEPT ![h] = [@ EXCEPT !.pc = IF ih[h].req = None THEN "done" ELSE "find"]]
    /\ UNCHANGED <<builds, storeUp, deployVars, buildVars, archiveVars,
                   deployments, fetcher, installed, ing>>

\* The Ingress next to an Engine that serves one deploy and one delete of
\* the app over the store both share.
NextIngress ==
    \/ StoreDown
    \/ StoreRecover
    \/ \E a \in Apps, c \in Commits, n \in ReqReplicas : PostDeploy(1, a, c, n)
    \/ DeployValidate(1)
    \/ DeployCreate(1)
    \/ DeployDeployingGet(1)
    \/ DeployDeployingSet(1)
    \/ \E o \in {"create", "later"} : DeployReplica(1, o, "")
    \/ \E p \in HostPorts : DeployReplica(1, "ok", p)
    \/ DeployReadyGet(1)
    \/ DeployReadySet(1)
    \/ DeployFailedGet(1)
    \/ DeployFailedSet(1)
    \/ \E id \in Apps : DeleteLookup(1, id)
    \/ \E ok \in BOOLEAN : DeleteRemove(1, ok)
    \/ DeleteStore(1)
    \/ IngressStart
    \/ FetchKeys
    \/ FetchGet
    \/ FetchLock
    \/ FetchAssign
    \/ FetchUnlock
    \/ \E h \in ReadTasks : ReadRLock(h)
    \/ \E h \in ReadTasks : ReadMake(h)
    \/ \E h \in ReadTasks : ReadCopy(h)
    \/ \E h \in ReadTasks : ReadRUnlock(h)

SpecIngress == Init /\ [][NextIngress]_vars

\* the apps of the store the Ingress serves
ServeApps == {"demo", "api"}

\* what an Engine can have left under an app's key: nothing, a failed
\* deployment without containers, a ready deployment with two containers
ServeRecords(a) ==
    { None,
      Some(UpdateNewDeploymentStatus(CreateNewDeployment(1, a, "abc123"),
                                     DeploymentStatusFailed)),
      Some(UpdateNewDeploymentWithContainers(
               CreateNewDeployment(1, a, "abc123"),
               <<ContainerData(<<a, 1>>, ImageTag(a, "abc123"), "32768"),
                 ContainerData(<<a, 2>>, ImageTag(a, "abc123"), "32769")>>,
               DeploymentStatusReady)) }

\* The Ingress process starts next to a store that Engines have written:
\* the build of the commit is built and each app has one of its records.
InitServe ==
    /\ builds = [c \in Commits |->
                   Some(UpdateBuildWithImage(CreateBuild(c), BuildStatusBuilt,
                                             ImageTag("demo", c), "sha256:1", 1))]
    /\ ndeps \in [ServeApps -> UNION {ServeRecords(a) : a \in ServeApps}]
    /\ \A a \in ServeApps : ndeps[a] \in ServeRecords(a)
    /\ legacy = NoLegacy
    /\ gh = [g \in GetTasks |-> IdleGet]
    /\ lh = IdleLegacy
    /\ storeUp = TRUE
    /\ runtime = UNION {{ndeps[a][1].containers[k].cid : k \in 1..Len(ndeps[a][1].containers)} :
                          a \in {b \in ServeApps : ndeps[b] # None}}
    /\ dh = [t \in DeployTasks |-> IdleDeploy]
    /\ xh = [x \in DeleteTasks |-> IdleDelete]
    /\ bh = [b \in BuildTasks |-> IdleBuild]
    /\ scratch = {}
    /\ deployments = <<>>
    /\ deploymentsMux = [writer |-> FALSE, readers |-> 0]
    /\ fetcher = IdleFetcher
    /\ ih = [h \in ReadTasks |-> IdleRead]
    /\ installed = {<<>>}
    /\ ing = NewIngress
    /\ ex = IdleExtract
    /\ fs = InitialDisk

\* The Ingress from Start to Stop: the refresher, one request at a time,
\* over a store that may stop answering and in which an Engine deletes a
\* deployment.
NextServe ==
    \/ StoreDown
    \/ StoreRecover
    \/ DeleteLookup(1, "demo")
    \/ DeleteRemove(1, TRUE)
    \/ DeleteStore(1)
    \/ IngressStart
    \/ StopClose
    \/ StopWait
    \/ \E ok \in BOOLEAN : StopShutdown(ok)
    \/ FetchKeys
    \/ FetchGet
    \/ FetchLock
    \/ FetchAssign
    \/ FetchUnlock
    \/ FetcherExit
    \/ \E raw \in RawHosts : HandleRequest(1, raw)
    \/ ReadRLock(1)
    \/ ReadMake(1)
    \/ ReadCopy(1)
    \/ ReadRUnlock(1)
    \/ HandleFind(1)
    \/ \E k \in 1..MaxReplicas, rngOk \in BOOLEAN : HandleSelect(1, k, rngOk)
    \/ \E up \in BOOLEAN : HandleProxy(1, up)

SpecServe == InitServe /\ [][NextServe]_vars

\* deploymentFetcher: the fetch on startup, which waits for no tick
FetchOnStartup ==
    fetcher.fetches = 0 /\ FetchKeys

\* the steps the refresher goroutine takes without waiting for a tick: the
\* fetch on startup, a fetch that has begun, and its exit
FetcherStep ==
    \/ FetchOnStartup
    \/ FetchGet
    \/ FetchLock
    \/ FetchAssign
    \/ FetchUnlock
    \/ FetcherExit

\* the steps of the handler of a request that has been received
HandlerStep ==
    \/ ReadRLock(1) /\ ih[1].pc = "recv"
    \/ ReadMake(1)
    \/ ReadCopy(1)
    \/ ReadRUnlock(1)
    \/ HandleFind(1)
    \/ \E k \in 1..MaxReplicas, rngOk \in BOOLEAN : HandleSelect(1, k, rngOk)
    \/ \E up \in BOOLEAN : HandleProxy(1, up)

\* the steps of Stop after close(stopChan)
StopStep ==
    StopWait \/ \E ok \in BOOLEAN : StopShutdown(ok)

\* The Ingress from Start to Stop with one request for demo.  The
\* goroutines are scheduled fairly, every store call returns within its
\* deadline and the upstream answers or the transport gives up.
NextStop ==
    \/ StoreDown
    \/ StoreRecover
    \/ IngressStart
    \/ StopClose
    \/ FetchKeys
    \/ FetcherStep
    \/ HandleRequest(1, <<"demo">>)
    \/ HandlerStep
    \/ StopStep

SpecStop ==
    /\ InitServe
    /\ [][NextStop]_vars
    /\ WF_vars(FetcherStep)
    /\ WF_vars(HandlerStep)
    /\ WF_vars(StopStep)

\* deploymentFetcher: a fetchDeployments, on startup or when the ticker
\* fires, from its KEYS to its Unlock
RefreshStep ==
    \/ FetchKeys
    \/ FetchGet
    \/ FetchLock
    \/ FetchAssign
    \/ FetchUnlock

\* The running Ingress next to an Engine whose only write is the DELETE of
\* demo, over a store that answers every call.  The ticker fires, the
\* goroutines are scheduled fairly.
NextRefresh ==
    \/ DeleteLookup(1, "demo")
    \/ DeleteRemove(1, TRUE)
    \/ DeleteStore(1)
    \/ IngressStart
    \/ RefreshStep
    \/ \E raw \in {<<"demo">>, <<"api">>} : HandleRequest(1, raw)
    \/ HandlerStep

SpecRefresh ==
    /\ InitServe
    /\ [][NextRefresh]_vars
    /\ WF_vars(RefreshStep)
    /\ WF_vars(HandlerStep)

----------------------------------------------------------------------------
(* Bundle extraction.  A path is the sequence of its characters. *)

\* the characters an entry name is made of
NameChars == {"/", ".", "x"}

\* the names a tar header may carry
EntryNames == UNION {[1..n -> NameChars] : n \in 0..MaxNameLen}

\* the scratch directory os.MkdirTemp("", "nina-bundle") makes: /t/x
TempDir == <<"/", "t", "/", "x">>

\* strings.HasPrefix
HasPrefix(str, prefix) ==
    /\ Len(str) >= Len(prefix)
    /\ SubSeq(str, 1, Len(prefix)) = prefix

\* strings.Split(path, "/"): the elements between the separators
RECURSIVE SplitPath(_, _, _)
SplitPath(path, cur, acc) ==
    IF path = <<>> THEN Append(acc, cur)
    ELSE IF Head(path) = "/" THEN SplitPath(Tail(path), <<>>, Append(acc, cur))
    ELSE SplitPath(Tail(path), Append(cur, Head(path)), acc)

\* filepath.Clean, its pass over the elements: empty and "." elements are
\* dropped, ".." removes the element before it; a ".." with nothing before
\* it is dropped in a rooted path and kept in a relative one
RECURSIVE CleanElems(_, _, _)
CleanElems(elems, stack, rooted) ==
    IF elems = <<>> THEN stack
    ELSE LET e == Head(elems)
             rest == Tail(elems) IN
         IF e = <<>> \/ e = <<".">> THEN CleanElems(rest, stack, rooted)
         ELSE IF e = <<".", ".">>
         THEN IF stack # <<>> /\ stack[Len(stack)] # <<".", ".">>
              THEN CleanElems(rest, SubSeq(stack, 1, Len(stack) - 1), rooted)
              ELSE IF rooted THEN CleanElems(rest, stack, rooted)
              ELSE CleanElems(rest, Append(stack, e), rooted)
         ELSE CleanElems(rest, Append(stack, e), rooted)

\* the elements joined by the separator
RECURSIVE JoinElems(_)
JoinElems(elems) ==
    IF elems = <<>> THEN <<>>
    ELSE IF Len(elems) = 1 THEN elems[1]
    ELSE elems[1] \o <<"/">> \o JoinElems(Tail(elems))

\* filepath.Clean
Clean(path) ==
    LET rooted == path # <<>> /\ path[1] = "/"
        out == JoinElems(CleanElems(SplitPath(path, <<>>, <<>>), <<>>, rooted)) IN
    IF rooted THEN <<"/">> \o out
    ELSE IF out = <<>> THEN <<".">> ELSE out

\* filepath.Join of two elements: the non-empty ones, joined and cleaned
Join(a, b) ==
    IF a = <<>> /\ b = <<>> THEN <<>>
    ELSE IF a = <<>> THEN Clean(b)
    ELSE IF b = <<>> THEN Clean(a)
    ELSE Clean(a \o <<"/">> \o b)

\* filepath.Abs of a path that is absolute already
Abs(path) == Clean(path)

\* the position of the last separator of a path, 0 when it has none
LastSep(path) ==
    LET seps == {k \in 1..Len(path) : path[k] = "/"} IN
    IF seps = {} THEN 0 ELSE CHOOSE k \in seps : \A j \in seps : j <= k

\* filepath.Dir
Dir(path) ==
    Clean(SubSeq(path, 1, LastSep(path)))

\* validateTargetPath: TRUE when the target is accepted
validateTargetPath(target, tempDir) ==
    HasPrefix(Abs(target), Abs(tempDir))

\* a cleaned rooted path and the directories above it, by length
PathAndParents(path) ==
    {<<"/">>} \cup
    {SubSeq(path, 1, k) : k \in {j \in 2..Len(path) : j = Len(path) \/ path[j + 1] = "/"}}

\* os.MkdirAll: the directories missing on the way are made, up to the
\* first element that exists as a file
MkdirAll(path, disk) ==
    LET blocked == PathAndParents(path) \cap disk.files IN
    IF blocked = {}
    THEN [disk |-> [disk EXCEPT !.dirs = @ \cup PathAndParents(path)], err |-> FALSE]
    ELSE LET first == CHOOSE q \in blocked : \A r \in blocked : Len(q) <= Len(r) IN
         [disk |-> [disk EXCEPT !.dirs = @ \cup {q \in PathAndParents(path) : Len(q) < Len(first)}],
          err |-> TRUE]

\* os.OpenFile(O_CREATE|O_TRUNC|O_WRONLY) and the copy of the content
OpenFile(path, disk) ==
    IF path \in disk.dirs
    THEN [disk |-> disk, err |-> TRUE]
    ELSE [disk |-> [disk EXCEPT !.files = @ \cup {path}], err |-> FALSE]

\* extractTarEntry: the disk after the entry, and whether it failed
extractTarEntry(name, isDir, tempDir, disk) ==
    LET target == Join(tempDir, name) IN
    IF ~validateTargetPath(target, tempDir)
    THEN [disk |-> disk, err |-> TRUE]
    ELSE IF isDir
    THEN MkdirAll(target, disk)
    ELSE LET made == MkdirAll(Dir(target), disk) IN
         IF made.err THEN made ELSE OpenFile(target, made.disk)

\* NewBundle: decodeBundleContents, createGzipReader, createTempDirectory
NewBundleStart(ok) ==
    /\ ex.pc = "idle"
    /\ IF ok
       THEN /\ ex' = [ex EXCEPT !.pc = "next", !.tempDir = TempDir]
            /\ fs' = [fs EXCEPT !.dirs = @ \cup {TempDir}]
       ELSE /\ ex' = [ex EXCEPT !.pc = "failed"]
            /\ UNCHANGED fs
    /\ UNCHANGED <<builds, storeUp, deployVars, buildVars, ingressVars>>

\* extractTarContents: tarReader.Next gave a header; extractTarEntry
ExtractEntry(name, isDir) ==
    /\ ex.pc = "next"
    /\ ex.entries < MaxEntries
    /\ LET r == extractTarEntry(name, isDir, ex.tempDir, fs) IN
       /\ fs' = r.disk
       /\ ex' = IF r.err THEN [ex EXCEPT !.pc = "failed"]
                ELSE [ex EXCEPT !.entries = @ + 1]
    /\ UNCHANGED <<builds, storeUp, deployVars, buildVars, ingressVars>>

\* extractTarContents: tarReader.Next gave io.EOF, or an error
ExtractEnd(eof) ==
    /\ ex.pc = "next"
    /\ ex' = [ex EXCEPT !.pc = IF eof THEN "done" ELSE "failed"]
    /\ UNCHANGED <<builds, storeUp, deployVars, buildVars, ingressVars, fs>>

NextArchive ==
    \/ \E ok \in BOOLEAN : NewBundleStart(ok)
    \/ \E name \in EntryNames, isDir \in BOOLEAN : ExtractEntry(name, isDir)
    \/ \E eof \in BOOLEAN : ExtractEnd(eof)

SpecArchive == InitBuild /\ [][NextArchive]_vars

----------------------------------------------------------------------------
(* Fairness: a handler that has been dispatched, and the background task   *)
(* it started, keep being scheduled; every store and runtime call returns. *)
(* Nothing forces a client to send a request or the store to recover.      *)

DeployStep(t) ==
    \/ DeployValidate(t)
    \/ DeployCreate(t)
    \/ DeployDeployingGet(t)
    \/ DeployDeployingSet(t)
    \/ \E o \in {"create", "later"} : DeployReplica(t, o, "")
    \/ \E p \in HostPorts : DeployReplica(t, "ok", p)
    \/ DeployReadyGet(t)
    \/ DeployReadySet(t)
    \/ DeployFailedGet(t)
    \/ DeployFailedSet(t)

DeleteStep(x) ==
    \/ \E ok \in BOOLEAN : DeleteRemove(x, ok)
    \/ DeleteStore(x)

SpecFair ==
    /\ Init /\ [][Next]_vars
    /\ \A t \in DeployTasks : WF_vars(DeployStep(t))
    /\ \A x \in DeleteTasks : WF_vars(DeleteStep(x))

\* One POST /deploy alone: the first deploy task, with no other deploy and
\* no delete, over a store that may fail and recover.
NextSolo ==
    \/ StoreDown
    \/ StoreRecover
    \/ \E a \in ReqApps, c \in ReqCommits, n \in ReqReplicas : PostDeploy(1, a, c, n)
    \/ DeployValidate(1)
    \/ DeployCreate(1)
    \/ DeployDeployingGet(1)
    \/ DeployDeployingSet(1)
    \/ \E o \in {"create", "later"} : DeployReplica(1, o, "")
    \/ \E p \in HostPorts : DeployReplica(1, "ok", p)
    \/ DeployReadyGet(1)
    \/ DeployReadySet(1)
    \/ DeployFailedGet(1)
    \/ DeployFailedSet(1)

SpecSolo == Init /\ [][NextSolo]_vars /\ WF_vars(DeployStep(1))

\* Deploys of well-formed requests (one replica or more) that clients POST
\* directly, over a store that answers every call, with no delete
NextRace ==
    \/ \E t \in DeployTasks, a \in Apps, c \in Commits, n \in 1..MaxReplicas :
          PostDeploy(t, a, c, n)
    \/ \E t \in DeployTasks : DeployValidate(t)
    \/ \E t \in DeployTasks : DeployCreate(t)
    \/ \E t \in DeployTasks : DeployDeployingGet(t)
    \/ \E t \in DeployTasks : DeployDeployingSet(t)
    \/ \E t \in DeployTasks, o \in {"create", "later"} : DeployReplica(t, o, "")
    \/ \E t \in DeployTasks, p \in HostPorts : DeployReplica(t, "ok", p)
    \/ \E t \in DeployTasks : DeployReadyGet(t)
    \/ \E t \in DeployTasks : DeployReadySet(t)
    \/ \E t \in DeployTasks : DeployFailedGet(t)
    \/ \E t \in DeployTasks : DeployFailedSet(t)

SpecRace == Init /\ [][NextRace]_vars

\* CreateNewDeployment: the record with CreatedAt and UpdatedAt, both
\* time.Now()
Timestamped(d, now) ==
    [f \in DOMAIN d \cup {"createdAt", "updatedAt"} |->
        IF f \in DOMAIN d THEN d[f] ELSE now]

\* UpdateNewDeploymentStatus and UpdateNewDeploymentWithContainers:
\* deployment.UpdatedAt = time.Now(), on the copy that was read
Stamp(d, now) ==
    [d EXCEPT !.updatedAt = now]

\* the status the k-th update of a deploy pipeline writes: deploying, then
\* ready (UpdateNewDeploymentWithContainers) or failed
PipelineStatus(k, ok) ==
    IF k = 0 THEN DeploymentStatusDeploying
    ELSE IF ok THEN DeploymentStatusReady ELSE DeploymentStatusFailed

\* CreateNewDeployment with its timestamps, as deploy task t calls it; a
\* reading of the clock is later than the readings before it
StoreCreate(t, a, c) ==
    /\ dh[t].pc = "idle"
    /\ \A u \in DeployTasks : u < t => dh[u].pc # "idle"
    /\ LET now == lh.clock + 1 IN
       /\ lh' = [lh EXCEPT !.clock = now]
       /\ ndeps' = [ndeps EXCEPT ![a] =
                      Some(Timestamped(CreateNewDeployment(t, a, c), now))]
       /\ dh' = [dh EXCEPT ![t] = [@ EXCEPT !.pc = "stored", !.app = a, !.commit = c]]
    /\ UNCHANGED <<builds, legacy, storeUp, runtime, xh, gh,
                   buildVars, ingressVars, archiveVars>>

\* an update of task t's pipeline: GetNewDeployment, the new status (and
\* containers) and UpdatedAt = time.Now() on the copy; a missing record is
\* the update's error, after which the pipeline ends
StoreUpdateGet(t, ok) ==
    /\ dh[t].pc = "stored"
    /\ LET got == GetNewDeployment(dh[t].app)
           now == lh.clock + 1
           status == PipelineStatus(dh[t].i, ok) IN
       IF got = None
       THEN /\ dh' = [dh EXCEPT ![t] = [@ EXCEPT !.pc = "done", !.err = TRUE]]
            /\ UNCHANGED lh
       ELSE /\ lh' = [lh EXCEPT !.clock = now]
            /\ dh' = [dh EXCEPT ![t] =
                        [@ EXCEPT !.pc = "storing",
                                  !.rec = Some(Stamp(
                                      IF status = DeploymentStatusReady
                                      THEN UpdateNewDeploymentWithContainers(got[1], <<>>, status)
                                      ELSE UpdateNewDeploymentStatus(got[1], status), now))]]
    /\ UNCHANGED <<builds, ndeps, legacy, storeUp, runtime, xh, gh,
                   buildVars, ingressVars, archiveVars>>

\* the update's SET of the copy; the pipeline ends after its second update
StoreUpdateSet(t) ==
    /\ dh[t].pc = "storing"
    /\ ndeps' = [ndeps EXCEPT ![dh[t].app] = dh[t].rec]
    /\ dh' = [dh EXCEPT ![t] = [@ EXCEPT !.pc = IF dh[t].i = 0 THEN "stored" ELSE "done",
                                         !.i = @ + 1, !.rec = None]]
    /\ UNCHANGED <<builds, legacy, storeUp, runtime, xh, lh, gh,
                   buildVars, ingressVars, archiveVars>>

\* The store calls of the deploy pipelines of accepted requests, with the
\* timestamps they write, over a store that answers every call
NextStamps ==
    \/ \E t \in DeployTasks, a \in Apps, c \in Commits : StoreCreate(t, a, c)
    \/ \E t \in DeployTasks, ok \in BOOLEAN : StoreUpdateGet(t, ok)
    \/ \E t \in DeployTasks : StoreUpdateSet(t)

SpecStamps == Init /\ [][NextStamps]_vars

\* the identifiers a GET may name: the app, a legacy id
GetIDs == Apps \cup {generateID(1)}

\* One POST /deploy, one DELETE and the GETs of /deployments/:id, next to a
\* provision of the legacy structure
NextGet ==
    \/ NextSolo
    \/ \E id \in Apps : DeleteLookup(1, id)
    \/ \E ok \in BOOLEAN : DeleteRemove(1, ok)
    \/ DeleteStore(1)
    \/ \E g \in GetTasks, id \in GetIDs, path \in {"", "status"} : GetDeploymentRequest(g, id, path)
    \/ lh.made = 0 /\ CreateDeploymentCall("web")

SpecGet == Init /\ [][NextGet]_vars

----------------------------------------------------------------------------
(* The write handlers: one POST /build and one POST /deploy, whose callers *)
(* may disconnect, over a store that may fail and recover.                 *)

\* a step of the build handler, of the deploy handler or of its background
\* task, or a caller going away
WriteStep ==
    \/ \E a \in ReqApps, c \in Commits, z \in {"", "tgz"} : PostBuild(1, a, c, z)
    \/ BuildCreate(1)
    \/ \E o \in {"decode", "tar", "ok"} : BuildExtract(1, o)
    \/ \E o \in {"tar", "none", "ok"} : BuildMatch(1, o)
    \/ BuildBuildingGet(1)
    \/ BuildBuildingSet(1)
    \/ \E ok \in BOOLEAN : BuildRun(1, ok)
    \/ BuildBuiltGet(1)
    \/ BuildBuiltSet(1)
    \/ \E ok \in BOOLEAN : BuildCleanup(1, ok)
    \/ BuildFailedGet(1)
    \/ BuildFailedSet(1)
    \/ BuildDisconnect(1)
    \/ \E a \in ReqApps, c \in ReqCommits, n \in ReqReplicas : PostDeploy(1, a, c, n)
    \/ DeployValidate(1)
    \/ DeployCreate(1)
    \/ DeployDeployingGet(1)
    \/ DeployDeployingSet(1)
    \/ \E o \in {"create", "later"} : DeployReplica(1, o, "")
    \/ \E p \in HostPorts : DeployReplica(1, "ok", p)
    \/ DeployReadyGet(1)
    \/ DeployReadySet(1)
    \/ DeployFailedGet(1)
    \/ DeployFailedSet(1)
    \/ DeployDisconnect(1)

NextWrite ==
    \/ StoreDown
    \/ StoreRecover
    \/ WriteStep

SpecWrite == Init /\ [][NextWrite]_vars

\* the same two requests over a store that answers every call
SpecCancel == Init /\ [][WriteStep]_vars

----------------------------------------------------------------------------
(* Properties of the deploy pipeline *)

Stored(a) == ndeps[a][1]
IsReady(a) == ndeps[a] # None /\ Stored(a).status = DeploymentStatusReady

\* the containers deploy task t has started that are still in the runtime
StartedBy(t) == {cid \in runtime : cid[1] = t}

\* another deploy or delete request for t's app has been made
Intervened(t) ==
    \/ \E u \in DeployTasks \ {t} : dh[u].pc # "idle" /\ dh[u].app = dh[t].app
    \/ \E x \in DeleteTasks : xh[x].pc # "idle" /\ xh[x].id = dh[t].app

\* C2 (as claimed): whenever the stored deployment of an app is ready, its
\* container list has as many entries as the replicas requested by the
\* POST /deploy that created the record (the record's id names that request).
C2_ReadyHasRequestedReplicas ==
    \A a \in Apps :
        IsReady(a) => Len(Stored(a).containers) = dh[Stored(a).id].replicas

\* the build that GetBuild finds for the commit is built
BuiltBuildFound(commit) ==
    /\ storeUp
    /\ commit \in Commits
    /\ builds[commit] # None
    /\ builds[commit][1].status = BuildStatusBuilt

\* C5: a POST /deploy whose commit has no build record, or one that is not
\* built, when the handler looks it up, is answered 400 in that step, which
\* changes no deployment record and no container; and a request answered
\* 400 has created no record and started no container.
C5_DeployGating ==
    /\ [][\A t \in DeployTasks :
            (dh[t].pc = "post" /\ dh'[t] # dh[t] /\ ~BuiltBuildFound(dh[t].commit))
                => /\ dh'[t].pc = "done" /\ dh'[t].resp = "400"
                   /\ ndeps' = ndeps /\ runtime' = runtime]_vars
    /\ [](\A t \in DeployTasks :
            dh[t].resp = "400"
                => /\ dh[t].pc = "done" /\ dh[t].containers = <<>>
                   /\ StartedBy(t) = {}
                   /\ \A a \in Apps : ndeps[a] # None => Stored(a).id # t)

\* C5 witness: a well-formed request was refused because its build, though
\* recorded, is not built
C5_Witness ==
    \E t \in DeployTasks :
        /\ dh[t].resp = "400" /\ dh[t].app # "" /\ dh[t].commit \in Commits
        /\ builds[dh[t].commit] # None
        /\ builds[dh[t].commit][1].status = BuildStatusPending

\* C6 (as claimed): a deploy request that the Engine handles while a record
\* exists for its app is rejected and leaves the records unchanged.
C6_DeployRejectedWhileRecordExists ==
    [][\A t \in DeployTasks :
         (/\ dh[t].pc \in {"post", "create"} /\ dh'[t] # dh[t]
          /\ dh[t].app \in Apps /\ ndeps[dh[t].app] # None)
            => /\ dh'[t].pc = "done" /\ dh'[t].resp # "201"
               /\ ndeps' = ndeps]_vars

\* C6 (amended): a CLI deploy whose DeploymentExists precheck is answered
\* while a record exists for the app gives up without sending POST /deploy:
\* no record and no container changes, then or later, on its behalf.
C6_CliPrecheckRejects ==
    /\ [][\A t \in DeployTasks :
            (/\ dh[t].pc = "idle" /\ dh'[t].pc \in {"cliSend", "done"}
             /\ storeUp /\ ndeps[dh'[t].app] # None)
                => /\ dh'[t].pc = "done" /\ dh'[t].resp = "cli: already exists"
                   /\ ndeps' = ndeps /\ runtime' = runtime]_vars
    /\ [](\A t \in DeployTasks :
            dh[t].resp = "cli: already exists"
                => /\ dh[t].pc = "done" /\ StartedBy(t) = {}
                   /\ \A a \in Apps : ndeps[a] # None => Stored(a).id # t)

\* C6 witness: a CLI deploy was refused while another request's deployment
\* with a container is stored
C6_Witness ==
    \E t \in DeployTasks :
        /\ dh[t].resp = "cli: already exists"
        /\ ndeps[dh[t].app] # None
        /\ Len(Stored(dh[t].app).containers) > 0

\* an earlier DELETE of the same id has been answered 200
DeletedBefore(x, id) ==
    \E y \in DeleteTasks \ {x} :
        xh[y].pc = "done" /\ xh[y].resp = "200" /\ xh[y].id = id

\* C7 (as claimed): a DELETE of an id that an earlier DELETE removed
\* succeeds: it is not answered 404.
C7_SecondDeleteSucceeds ==
    [][\A x \in DeleteTasks :
         (/\ xh[x].pc = "idle" /\ xh'[x].pc # "idle" /\ storeUp
          /\ DeletedBefore(x, xh'[x].id))
            => xh'[x].resp # "404"]_vars

\* C7 (amended): the second DELETE of an id, with the store reachable and no
\* deployment of that app stored since the first, is answered 404; it
\* removes no container and changes nothing in the store.
C7_SecondDeleteNotFound ==
    /\ [][\A x \in DeleteTasks :
            (/\ xh[x].pc = "idle" /\ xh'[x].pc # "idle" /\ storeUp
             /\ DeletedBefore(x, xh'[x].id) /\ ndeps[xh'[x].id] = None)
                => /\ xh'[x].pc = "done" /\ xh'[x].resp = "404"
                   /\ ndeps' = ndeps /\ legacy' = legacy /\ runtime' = runtime]_vars
    /\ [](\A x \in DeleteTasks : xh[x].resp = "404" => xh[x].removed = 0)

\* C7 witness: two DELETEs of the same id are done, the first removed a
\* container and was answered 200, the other was answered 404
C7_Witness ==
    \E x, y \in DeleteTasks :
        /\ xh[x].pc = "done" /\ xh[x].resp = "200" /\ xh[x].removed > 0
        /\ xh[y].pc = "done" /\ xh[y].resp = "404" /\ xh[y].id = xh[x].id

\* C8 (as claimed): a stored deployment that is ready has at least one
\* container, each with a non-empty container_id and a port greater than 0.
C8_ReadyContainersWellFormed ==
    \A a \in Apps :
        IsReady(a)
            => /\ Len(Stored(a).containers) >= 1
               /\ \A k \in 1..Len(Stored(a).containers) :
                    /\ Stored(a).containers[k].cid # <<>>
                    /\ Stored(a).containers[k].port > 0

\* C9 (as claimed): a POST /deploy with replicas = 0 is refused with 400 or
\* runs as replicas = 1: it never gets to the ready update, or to its end,
\* without having started a container.
C9_ZeroReplicasNeverDeployed ==
    \A t \in DeployTasks :
        (dh[t].pc \in {"readySet", "done"} /\ dh[t].replicas = 0 /\ dh[t].resp = "201"
            /\ ~dh[t].err)
            => Len(dh[t].containers) >= 1

\* the stored deployment of t's app is ready with exactly t's containers
ReadyWith(t) ==
    /\ dh[t].app \in Apps
    /\ ndeps[dh[t].app] # None
    /\ Stored(dh[t].app).status = DeploymentStatusReady
    /\ Stored(dh[t].app).containers = dh[t].containers

\* every requested replica of t was created, started and inspected
AllReplicasStarted(t) ==
    /\ dh[t].pc \in {"loop", "readySet", "failedGet", "failedSet", "done"}
    /\ dh[t].resp = "201"
    /\ dh[t].i = dh[t].replicas
    /\ Len(dh[t].containers) = dh[t].replicas

ReplicaFailed(t) ==
    dh[t].err /\ dh[t].i < dh[t].replicas

Settled(t) ==
    /\ dh[t].app \in Apps
    /\ ndeps[dh[t].app] # None
    /\ Stored(dh[t].app).status \in {DeploymentStatusReady, DeploymentStatusFailed}

\* C12 (as claimed): a store or runtime failure inside the background task
\* is recorded as failed: every deployment accepted with 201 eventually has
\* status ready or failed.
C12_AcceptedEndsReadyOrFailed ==
    \A t \in DeployTasks :
        [](dh[t].resp = "201" => <>Settled(t))

\* C13 (as claimed): the step in which POST /deploy replies 201 leaves the
\* record of the app stored with status deploying and no container, and
\* the record in the body of the reply shows that status and an empty
\* container list.
C13_AcceptedRecordIsDeploying ==
    [][\A t \in DeployTasks :
         (dh[t].resp # "201" /\ dh'[t].resp = "201")
            => /\ ndeps'[dh[t].app] # None
               /\ ndeps'[dh[t].app][1].status = DeploymentStatusDeploying
               /\ ndeps'[dh[t].app][1].containers = <<>>
               /\ dh'[t].deployment # None
               /\ dh'[t].deployment[1].status = DeploymentStatusDeploying
               /\ dh'[t].deployment[1].containers = <<>>]_vars

\* the containers listed in the deployment DELETE request x looked up
Listed(x) == xh[x].rec[1].containers

\* C14: each step of the removal loop of DELETE /deployments/:id attempts
\* the next listed container and goes on to the one after it whether the
\* removal succeeded or not, adding to containers_removed exactly when the
\* container left the runtime; the store record is deleted only after the
\* last listed container was attempted; and a DELETE answered 200 for a
\* deployment with containers has attempted all of them and reports the
\* number of removals that succeeded.
C14_DeleteBestEffort ==
    /\ [][\A x \in DeleteTasks :
            (xh[x].pc = "remove" /\ xh'[x] # xh[x])
                => IF xh[x].i < Len(Listed(x))
                   THEN /\ xh'[x].pc = "remove" /\ xh'[x].i = xh[x].i + 1
                        /\ runtime \ runtime' \subseteq {Listed(x)[xh[x].i + 1].cid}
                        /\ xh'[x].removed = xh[x].removed + Cardinality(runtime \ runtime')
                        /\ ndeps' = ndeps
                   ELSE /\ xh'[x].pc = "done" /\ xh'[x].removed = xh[x].removed
                        /\ runtime' = runtime
                        /\ IF storeUp
                           THEN xh'[x].resp = "200" /\ ndeps'[xh[x].id] = None
                           ELSE xh'[x].resp = "500" /\ ndeps' = ndeps]_vars
    /\ [](\A x \in DeleteTasks :
            (xh[x].pc = "done" /\ xh[x].rec # None)
                => xh[x].i = Len(Listed(x)) /\ xh[x].removed <= xh[x].i)

\* C14 witness: a DELETE of a deployment of two containers was answered 200
\* with containers_removed = 1: the removal of the first failed (it is
\* still in the runtime) and the second was removed all the same
C14_Witness ==
    \E x \in DeleteTasks :
        /\ xh[x].pc = "done" /\ xh[x].resp = "200" /\ xh[x].rec # None
        /\ Len(Listed(x)) = 2 /\ xh[x].removed = 1
        /\ Listed(x)[1].cid \in runtime
        /\ Listed(x)[2].cid \notin runtime
        /\ ndeps[xh[x].id] = None

----------------------------------------------------------------------------
(* Properties of the build pipeline *)

\* the status changes that follow pending -> building -> built, or end in
\* failed; built and failed are never left
StatusStep(s, t) ==
    \/ t = s
    \/ s = BuildStatusPending /\ t \in {BuildStatusBuilding, BuildStatusFailed}
    \/ s = BuildStatusBuilding /\ t \in {BuildStatusBuilt, BuildStatusFailed}

\* the status changes that never move backward in pending < building <
\* built and never leave built or failed
StatusForward(s, t) ==
    \/ StatusStep(s, t)
    \/ s = BuildStatusPending /\ t = BuildStatusBuilt

\* the POST /build requests for a commit whose CreateBuild was performed
Submitted(c) ==
    {b \in BuildTasks : bh[b].commit = c /\ bh[b].created}

HasImage(r) == r.imageTag # "" /\ r.imageID # ""

\* C19 (as claimed): in every reachable store state a build record has a
\* non-empty image_tag and a non-empty image_id if and only if its status
\* is built.
C19_ImageIffBuilt ==
    \A c \in Commits :
        builds[c] # None
            => (HasImage(builds[c][1]) <=> builds[c][1].status = BuildStatusBuilt)

\* C19 (amended): the record of a commit_hash that a single POST /build has
\* reached has a non-empty image_tag and a non-empty image_id if and only
\* if its status is built.
C19_SingleSubmissionImageIffBuilt ==
    \A c \in Commits :
        (builds[c] # None /\ Cardinality(Submitted(c)) <= 1)
            => (HasImage(builds[c][1]) <=> builds[c][1].status = BuildStatusBuilt)

\* C19 witness: the record of a commit submitted once is built and carries
\* the tag and the id of the image its handler built
C19_Witness ==
    \E b \in BuildTasks :
        /\ Submitted(bh[b].commit) = {b} /\ bh[b].deployment # None
        /\ builds[bh[b].commit] # None
        /\ builds[bh[b].commit][1].status = BuildStatusBuilt
        /\ builds[bh[b].commit][1].imageTag = bh[b].deployment[1].imageTag
        /\ builds[bh[b].commit][1].imageID = bh[b].deployment[1].imageID
        /\ HasImage(builds[bh[b].commit][1])

\* C20 (as claimed): when the image build has succeeded and POST /build
\* replies 201, to a caller that is still there and for a commit_hash no
\* other request has submitted, the record of the commit_hash is stored with
\* status built and the image_tag, image_id and size the buildpack returned.
C20_SuccessIsRecordedBuilt ==
    [][\A b \in BuildTasks :
         (/\ bh[b].resp # "201" /\ bh'[b].resp = "201" /\ ~bh'[b].cancelled
          /\ Submitted(bh[b].commit) = {b})
            => /\ bh'[b].deployment # None
               /\ builds'[bh[b].commit] # None
               /\ builds'[bh[b].commit][1].status = BuildStatusBuilt
               /\ builds'[bh[b].commit][1].imageTag = bh'[b].deployment[1].imageTag
               /\ builds'[bh[b].commit][1].imageID = bh'[b].deployment[1].imageID
               /\ builds'[bh[b].commit][1].size = bh'[b].deployment[1].size]_vars

\* the scratch directories made for build request b that still exist
ScratchOf(b) == {d \in scratch : d[1] = b}

\* C15 (as claimed): when the build handler has finished, whether with 201
\* or after a failed extraction, buildpack detection or image build, no
\* scratch directory made for that request is left.
C15_ScratchReleased ==
    \A b \in BuildTasks :
        (bh[b].pc = "done" /\ bh[b].created) => ScratchOf(b) = {}

----------------------------------------------------------------------------
(* Properties of the Ingress *)

\* C3: under any interleaving of refreshes and requests, the list a request
\* handler has read (the copy getDeployments made) is one of the lists the
\* refresher installed as a whole, or the initial empty list.
C3_IngressAtomicity ==
    \A h \in ReadTasks :
        ih[h].pc \in {"unlock", "done"} => ih[h].out \in installed

\* C3 witness: a handler has read a non-empty list while the refresher,
\* with a different list fetched, waits for the lock the handler holds
C3_Witness ==
    \E h \in ReadTasks :
        /\ ih[h].pc = "unlock" /\ ih[h].out # <<>>
        /\ fetcher.pc = "get" /\ fetcher.keys = <<>> /\ fetcher.list # ih[h].out

----------------------------------------------------------------------------
(* Properties of the bundle extraction *)

\* the path is the scratch root or lies below it
InsideScratch(path, root) ==
    path = root \/ HasPrefix(path, root \o <<"/">>)

\* C4 (as claimed): for any tar bundle, extraction creates no file or
\* directory outside the scratch root directory.
C4_ArchiveSafety ==
    \A path \in (fs.dirs \cup fs.files) \ InitialDisk.dirs :
        InsideScratch(path, TempDir)

\* C16 (as claimed): when NewBundle has failed after it made the scratch
\* directory (a tar entry could not be read, a path was rejected, a write
\* failed), the scratch directory does not exist any more.
C16_FailedExtractionRemovesScratch ==
    (ex.pc = "failed" /\ ex.tempDir # <<>>) => ex.tempDir \notin fs.dirs

----------------------------------------------------------------------------
(* Properties of the write handlers *)

\* the step in which the handler of build request b replies 201
BuildReplies(b) == bh[b].resp # "201" /\ bh'[b].resp = "201"

\* the step in which the handler of deploy request t replies 201
DeployReplies(t) == dh[t].resp # "201" /\ dh'[t].resp = "201"

C18_DisconnectDoesNotAbort ==
    /\ \A b \in BuildTasks :
          (bh[b].pc = "done" /\ bh[b].created /\ bh[b].cancelled)
              => /\ builds[bh[b].commit] # None
                 /\ builds[bh[b].commit][1].status \in {BuildStatusBuilt, BuildStatusFailed}
    /\ \A t \in DeployTasks :
          (dh[t].pc = "done" /\ dh[t].resp = "201" /\ dh[t].cancelled)
              => Settled(t)

\* the bundle of build request b carries an entry larger than the limit
Oversized(b) == EntrySize(bh[b].bundle) > EntryLimitMiB

\* C21 (as claimed): a build request whose bundle carries an entry larger
\* than the per-entry limit has that entry written truncated to the limit,
\* and the record of its commit_hash, which no other request has submitted,
\* never gets status built.
C21_OversizedEntryFailsBuild ==
    \A b \in BuildTasks :
        (bh[b].created /\ Oversized(b) /\ Submitted(bh[b].commit) = {b})
            => /\ bh[b].written <= EntryLimitMiB
               /\ builds[bh[b].commit] # None
                    => builds[bh[b].commit][1].status # BuildStatusBuilt

----------------------------------------------------------------------------
(* Properties of the Ingress from Start to Stop *)

\* the step is a refresh tick whose ListNewDeployments returned an error
TickFails ==
    /\ fetcher.pc = "idle" /\ fetcher'.pc = "idle"
    /\ fetcher'.fetches = fetcher.fetches + 1
    /\ fetcher'.err

\* C22: when the ListNewDeployments call of a refresh tick fails, the
\* snapshot after the tick is the snapshot before it and the lock is as it
\* was, so that requests go on being routed from that snapshot.
C22_ServeStale ==
    [][TickFails => /\ deployments' = deployments
                    /\ deploymentsMux' = deploymentsMux
                    /\ installed' = installed]_vars

\* C22 witness: after a tick that failed, the snapshot still lists a
\* deployment that has been deleted from the store, and a request for it
\* has been proxied to one of its containers
C22_Witness ==
    /\ fetcher.pc = "idle" /\ fetcher.err /\ ~storeUp
    /\ deployments # <<>>
    /\ ndeps["demo"] = None
    /\ \E k \in 1..Len(deployments) : deployments[k].app = "demo"
    /\ ih[1].pc = "done" /\ ih[1].proxied # None /\ ih[1].out = deployments

\* Stop has returned
StopReturned == ing.stop = "returned"

\* C23: Stop signals the refresher and joins it before it returns.  Once
\* Stop has been called it returns; once it has returned the refresher of a
\* started Ingress has exited, and no step installs a snapshot.
C23_StopJoinsRefresher ==
    /\ [](StopReturned => /\ ing.stopChan = "closed"
                          /\ ing.wg = 0
                          /\ ing.server # "nil" => fetcher.pc = "exited")
    /\ [][StopReturned => /\ deployments' = deployments
                          /\ installed' = installed
                          /\ fetcher' = fetcher]_vars
    /\ (ing.stop = "wait") ~> StopReturned

\* C23 witness: Stop was called while the refresher was installing a
\* list; the refresher finished the install and exited, and Stop returned
\* with that list as the snapshot
C23_Witness ==
    /\ StopReturned
    /\ fetcher.pc = "exited"
    /\ fetcher.fetches = MaxFetches
    /\ deployments # <<>>
    /\ ih[1].pc = "done" /\ ih[1].resp # None

\* the request's Host without its port: what stands before the first ":"
PortStripped(raw) ==
    LET colons == {k \in 1..Len(raw) : raw[k] = ":"}
        end == IF colons = {} THEN Len(raw)
               ELSE (CHOOSE k \in colons : \A j \in colons : k <= j) - 1 IN
    HostString(SubSeq(raw, 1, end))

\* the deployments of the list the handler read whose app_name is name
Named(h, name) ==
    {k \in 1..Len(ih[h].out) : ih[h].out[k].app = name}

\* the handler has answered a request
Answered(h) ==
    ih[h].pc = "done" /\ ih[h].req # None

\* C24: a request whose host, port stripped, is the app_name of no
\* deployment of the snapshot the handler read is answered 404 with the
\* body {error: unknown_application, message: unknown application}, and
\* nothing is proxied.
C24_UnknownApplication ==
    \A h \in ReadTasks :
        (Answered(h) /\ Named(h, PortStripped(ih[h].req[1])) = {})
            => /\ ih[h].resp = Some([code |-> 404, error |-> "unknown_application",
                                     message |-> "unknown application"])
               /\ ih[h].proxied = None

\* C24 witness: a request for a host with a port, whose name no deployment
\* of a non-empty snapshot has, has been answered
C24_Witness ==
    \E h \in ReadTasks :
        /\ Answered(h) /\ ih[h].out # <<>>
        /\ ih[h].req[1] = <<"nope", ":", "8080">>
        /\ ih[h].resp # None /\ ih[h].resp[1].code = 404

\* C25: a request whose host, port stripped, is the app_name of a
\* deployment of the snapshot the handler read that has no container is
\* answered 503 with the body {error: no_replicas_available, message: no
\* replicas available}, and nothing is proxied.
C25_NoReplicasAvailable ==
    \A h \in ReadTasks :
        (/\ Answered(h)
         /\ \E k \in Named(h, PortStripped(ih[h].req[1])) : ih[h].out[k].containers = <<>>)
            => /\ ih[h].resp = Some([code |-> 503, error |-> "no_replicas_available",
                                     message |-> "no replicas available"])
               /\ ih[h].proxied = None
               /\ ih[h].container = None

\* C25 witness: a request for api has been answered from a snapshot that
\* lists api without containers next to demo with its two
C25_Witness ==
    \E h \in ReadTasks :
        /\ Answered(h) /\ Len(ih[h].out) = 2
        /\ ih[h].req[1] = <<"api">>
        /\ ih[h].deployment # None /\ ih[h].deployment[1].containers = <<>>
        /\ \E k \in Named(h, "demo") : Len(ih[h].out[k].containers) = 2
        /\ ih[h].resp # None /\ ih[h].resp[1].code = 503

\* C26: for every proxied request the chosen container is one of the
\* containers of the deployment, in the snapshot the handler read, whose
\* app_name is the request's host; the proxy's target is that container's
\* address and port, and the outbound X-Nina-Replica-Container-ID is that
\* container's container_id.
C26_ProxyTargetsChosenReplica ==
    \A h \in ReadTasks :
        (ih[h].req # None /\ ih[h].proxied # None)
            => \E k \in Named(h, PortStripped(ih[h].req[1])) :
                 \E j \in 1..Len(ih[h].out[k].containers) :
                    LET c == ih[h].out[k].containers[j] IN
                    /\ ih[h].container = Some(c)
                    /\ ih[h].proxied[1].target = [address |-> c.address, port |-> c.port]
                    /\ ih[h].proxied[1].header = c.cid

\* C26 witness: a request for demo:8080 has been proxied to the second of
\* the two containers of demo, from a snapshot that lists two deployments
\* with containers
C26_Witness ==
    \E h \in ReadTasks :
        /\ Answered(h) /\ ih[h].req[1] = <<"demo", ":", "8080">>
        /\ Len(ih[h].out) = 2
        /\ \A k \in 1..2 : Len(ih[h].out[k].containers) = 2
        /\ ih[h].proxied # None
        /\ ih[h].proxied[1].header = <<"demo", 2>>
        /\ ih[h].proxied[1].target.port = 32769

\* no two deployments of the list have the same app_name
UniqueNames(list) ==
    \A j, k \in 1..Len(list) : j # k => list[j].app # list[k].app

\* C27: no snapshot, installed or read by a handler, has two deployments
\* with the same app_name; and findDeploymentByAppName(h) over the
\* snapshot the handler read has returned the one deployment whose
\* app_name is h, or nil when the snapshot has none.
C27_HostRoutingDeterminism ==
    /\ \A list \in installed \cup {deployments} : UniqueNames(list)
    /\ \A h \in ReadTasks :
          (ih[h].req # None /\ ih[h].pc \in {"select", "proxy", "done"})
              => /\ UniqueNames(ih[h].out)
                 /\ Named(h, ih[h].host) = {} => ih[h].deployment = None
                 /\ \A k \in Named(h, ih[h].host) : ih[h].deployment = Some(ih[h].out[k])

\* C27 witness: findDeploymentByAppName has returned the second
\* deployment of a snapshot of two
C27_Witness ==
    \E h \in ReadTasks :
        /\ ih[h].pc = "select" /\ Len(ih[h].out) = 2
        /\ ih[h].deployment = Some(ih[h].out[2])
        /\ ih[h].out[1].app # ih[h].out[2].app

\* C29 (as claimed): Stop returns nil when the Ingress was never started,
\* and nil after the shutdown of a started Ingress unless the shutdown of
\* the server failed.
C29_StopNilUnlessShutdownFails ==
    StopReturned
        => /\ ing.server = "nil" => ing.err = None
           /\ ing.err # None => ing.err = Some("failed to shutdown ingress: shutdown failed")

----------------------------------------------------------------------------
(* Properties of GET /deployments/:id and of the legacy store *)

\* the step is the answer to GET request g
GetReplies(g) == gh[g].pc = "idle" /\ gh'[g].pc = "done"

\* DELETE /deployments/<id> would find a deployment created by POST /deploy
DeleteFinds(id) == id \in DOMAIN ndeps /\ GetNewDeployment(id) # None

\* C28 (as claimed): a GET of /deployments/:id or /deployments/:id/status
\* that names the identifier under which DELETE finds a deployment created
\* by POST /deploy is answered 200 with that deployment; and, the store
\* answering, 404 is the answer only when neither structure holds a
\* deployment under the identifier.
C28_GetFindsDeployedApp ==
    [][\A g \in GetTasks :
         GetReplies(g)
            => LET id == gh'[g].id IN
               /\ DeleteFinds(id)
                    => /\ gh'[g].resp = "200"
                       /\ gh'[g].item = GetNewDeployment(id)
               /\ (storeUp /\ gh'[g].resp = "404")
                    => ~DeleteFinds(id) /\ GetDeployment(id) = None]_vars

\* the deployments CreateDeployment has returned whose DeleteDeployment
\* has not succeeded
Undeleted == {c \in lh.created : c.id \notin lh.deleted}

\* C30 (as claimed): over a store that answers, after any sequence of
\* CreateDeployment and DeleteDeployment calls GetDeploymentByName(name)
\* returns a stored deployment of that name exactly when an undeleted
\* deployment of that name exists, and GetDeployment(id) fails for every
\* id whose DeleteDeployment has succeeded.
C30_LegacyNameIndex ==
    storeUp
        => /\ \A name \in LegacyNames :
                 LET got == GetDeploymentByName(name) IN
                 (got # None /\ got[1].name = name /\ got[1] \in legacy.deps)
                     <=> (\E c \in Undeleted : c.name = name)
           /\ \A id \in lh.deleted : GetDeployment(id) = None

----------------------------------------------------------------------------
(* Concurrent callers of the legacy store *)

\* the goroutine's CreateDeployment has returned a deployment
Created(c) == lh.calls[c].pc \in {"created", "del", "delName"} \/
              (lh.calls[c].pc = "done" /\ lh.calls[c].err # "create")

\* C31: concurrent CreateDeployment calls with distinct names each obtain
\* an id of their own, and the DeleteDeployment of the id a caller received
\* succeeds, however the calls interleave.
C31_ConcurrentCreateDelete ==
    /\ \A c, e \in Callers :
          (c # e /\ Created(c) /\ Created(e)) => lh.calls[c].id # lh.calls[e].id
    /\ \A c \in Callers : lh.calls[c].pc = "done" => lh.calls[c].err = ""

----------------------------------------------------------------------------
(* Writers of one deployment key *)

\* task t is between the read and the write of an update of its app's
\* record
Updating(t) == dh[t].pc \in {"deployingSet", "readySet", "failedSet"}

\* task t writes its update in this step
WritesUpdate(t) == Updating(t) /\ dh'[t].pc # dh[t].pc /\ ndeps' # ndeps

\* C32: no two tasks are inside a read-modify-write of the same
\* nina-deployment-<app_name> key at once, and the record a task writes
\* back is made from the record that is stored at that moment: no write of
\* another task is overwritten by a stale one.
C32_WritesSerializedPerApp ==
    /\ [](\A t, u \in DeployTasks :
            (t # u /\ Updating(t) /\ Updating(u)) => dh[t].app # dh[u].app)
    /\ [][\A t \in DeployTasks :
            WritesUpdate(t) => ndeps[dh[t].app] = dh[t].rec]_vars

----------------------------------------------------------------------------
(* Writers of one build key *)

\* the handler of request b has created the commit's build record and has
\* updates of it still to write
Building(b) == bh[b].created /\ bh[b].pc # "done"

\* C33: when every caller POSTs /build only after the BuildExists precheck,
\* at most one task at a time mutates the build record of a commit, two
\* clients that submit the same commit concurrently included.
C33_PrecheckSerializesBuilds ==
    \A b, u \in BuildTasks :
        (b # u /\ Building(b) /\ Building(u)) => bh[b].commit # bh[u].commit

----------------------------------------------------------------------------
(* Two deploys of one app *)

\* the record r is the outcome of request t alone: its id is the one
\* CreateNewDeployment gave t's record, its containers are the ones t's
\* replica manager started, and its status is what that manager ended with
OutcomeOf(r, t) ==
    /\ r.id = t
    /\ r.commit = dh[t].commit
    /\ \A i \in 1..Len(r.containers) : r.containers[i].cid[1] = t
    /\ r.status = IF dh[t].err THEN DeploymentStatusFailed ELSE DeploymentStatusReady

\* both POST /deploy were accepted for app a and both background tasks
\* have ended, with no DELETE received
BothDeployed(a) ==
    /\ \A t \in DeployTasks :
          dh[t].pc = "done" /\ dh[t].resp = "201" /\ dh[t].app = a
    /\ \A x \in DeleteTasks : xh[x].pc = "idle"

\* C34: when two POST /deploy for the same app are both accepted and their
\* replica managers run concurrently, the record stored at the end is the
\* outcome of exactly one of the two requests.
C34_FinalRecordOfOneDeploy ==
    \A a \in Apps :
        (BothDeployed(a) /\ ndeps[a] # None)
            => \E t \in DeployTasks : OutcomeOf(Stored(a), t)

----------------------------------------------------------------------------
(* Delete while a deploy is running *)

\* the step is the CreateNewDeployment of an accepted POST /deploy for app a
CreatesRecord(a) ==
    \E t \in DeployTasks : dh[t].pc = "create" /\ dh[t].app = a /\ dh'[t].pc = "deployingGet"

\* C35: a key nina-deployment-<app_name> that is absent (never created, or
\* deleted by DELETE /deployments/:id) becomes present only by the
\* CreateNewDeployment of an accepted POST /deploy: no write of a
\* background task that is still running re-creates a deleted record.
C35_DeletedStaysDeleted ==
    [][\A a \in Apps :
        (ndeps[a] = None /\ ndeps'[a] # None) => CreatesRecord(a)]_vars

----------------------------------------------------------------------------
(* Containers and the record that lists them *)

\* the ids of the containers listed in the stored record of app a
ListedIn(a) ==
    IF ndeps[a] = None THEN {}
    ELSE {Stored(a).containers[i].cid : i \in 1..Len(Stored(a).containers)}

\* the containers of app a that the Engine started (createAndStartContainer
\* returned them to the replica manager) and that are still in the runtime
Running(a) ==
    {cid \in runtime :
        \E t \in DeployTasks :
            /\ dh[t].app = a
            /\ \E i \in 1..Len(dh[t].containers) : dh[t].containers[i].cid = cid}

\* no deploy task and no delete is in progress
Quiet ==
    /\ \A t \in DeployTasks : dh[t].pc \in {"idle", "done"}
    /\ \A x \in DeleteTasks : xh[x].pc \in {"idle", "done"}

\* C36: once the deploy tasks and the deletes of an app have finished, every
\* container the Engine started for the app and has not removed is listed in
\* the app's stored deployment record.
C36_NoOrphanContainers ==
    Quiet => \A a \in Apps : Running(a) \subseteq ListedIn(a)

----------------------------------------------------------------------------
(* The snapshot lock and the proxy call *)

\* handler h is inside getDeployments, between RLock and RUnlock
InGetDeployments(h) == ih[h].pc \in {"make", "copy", "unlock"}

\* handler h is in the proxy call: the upstream request is in progress
Proxying(h) == ih[h].pc = "proxy"

\* C37: the shared lock of the snapshot is held only inside getDeployments,
\* by the handlers that are there, so a handler in the proxy call holds no
\* lock; and whenever no handler is inside getDeployments, the refresher
\* that has its list can take the write lock at once, however long the
\* upstream calls in progress last.
C37_NoLockAcrossProxy ==
    /\ deploymentsMux.readers = Cardinality({h \in ReadTasks : InGetDeployments(h)})
    /\ (fetcher.pc = "get" /\ \A h \in ReadTasks : ~InGetDeployments(h))
          => CanLock(deploymentsMux)

\* C37 witness: the refresher installs a snapshot while a handler's
\* upstream request is in progress
C37_Witness ==
    /\ fetcher.pc = "assign"
    /\ deploymentsMux.writer
    /\ \E h \in ReadTasks : Proxying(h)

----------------------------------------------------------------------------
(* Timestamps of a deployment record *)

\* C38: whenever the record of an app is replaced by a record, the new
\* updated_at is not earlier than the one it replaces, updates of
\* concurrently running tasks included.
C38_UpdatedAtNeverDecreases ==
    [][\A a \in Apps :
        (ndeps[a] # None /\ ndeps'[a] # None)
            => ndeps'[a][1].updatedAt >= ndeps[a][1].updatedAt]_vars

----------------------------------------------------------------------------
(* Statuses of one deployment *)

\* the status changes of unavailable -> deploying -> ready and of
\* unavailable -> deploying -> failed; ready and failed are never left
DeployStatusStep(s, t) ==
    \/ t = s
    \/ s = DeploymentStatusUnavailable /\ t = DeploymentStatusDeploying
    \/ s = DeploymentStatusDeploying
          /\ t \in {DeploymentStatusReady, DeploymentStatusFailed}

\* C39: for a single accepted deploy with no concurrent deploy or delete on
\* the app, the record starts as unavailable and each change of its status
\* follows unavailable -> deploying -> ready or unavailable -> deploying ->
\* failed: deploying is never skipped, ready and failed are never left.
C39_DeployStatusSequence ==
    [][\A a \in Apps :
        /\ (ndeps[a] = None /\ ndeps'[a] # None)
              => ndeps'[a][1].status = DeploymentStatusUnavailable
        /\ (ndeps[a] # None /\ ndeps'[a] # None)
              => DeployStatusStep(ndeps[a][1].status, ndeps'[a][1].status)]_vars

----------------------------------------------------------------------------
(* The snapshot follows the store *)

\* the record of app a has stopped changing: under SpecRefresh the only
\* writer of the store is the DELETE of demo
Unchanging(a) == a # "demo" \/ xh[1].pc = "done"

\* the refresher is running and waits for its next tick
TickDue == ing.wg = 1 /\ fetcher.pc = "idle" /\ fetcher.fetches < MaxFetches

\* the snapshot has exactly the stored record of app a: a request for a is
\* routed to that record, and is answered 404 when the key is absent
Reflects(a) ==
    /\ findDeploymentByAppName(deployments, a) = ndeps[a]
    /\ Cardinality({k \in 1..Len(deployments) : deployments[k].app = a})
          = IF ndeps[a] = None THEN 0 ELSE 1

\* C40: over a store that stays reachable, once the record of an app has
\* stopped changing, the refresh of the next tick installs a snapshot that
\* has exactly that record, and the snapshot keeps it from then on: a
\* ready deployment is routable, a deleted one is answered 404.
C40_SnapshotConverges ==
    /\ \A a \in ServeApps : (Unchanging(a) /\ TickDue) ~> Reflects(a)
    /\ [][\A a \in ServeApps :
            (Unchanging(a) /\ Reflects(a) /\ fetcher.pc = "idle") => Reflects(a)']_vars

\* C40 witness: demo was in a snapshot, was deleted with 200, the snapshot
\* of a later tick has no demo and a request for demo was answered 404,
\* while api is ready and in the snapshot
C40_Witness ==
    /\ \E l \in installed : findDeploymentByAppName(l, "demo") # None
    /\ xh[1].pc = "done" /\ xh[1].resp = "200" /\ ndeps["demo"] = None
    /\ fetcher.pc = "idle" /\ Reflects("demo")
    /\ ih[1].pc = "done" /\ ih[1].host = "demo"
    /\ ih[1].resp = Some(handleUnknownApplication)
    /\ IsReady("api") /\ Reflects("api")

====
